---- MODULE Spec2Model ----
(***************************************************************************)
(* A1Implementation: the tool-call executor (a1_system/tool_calling.py),   *)
(* the pricing oracle and its cache (a1_system/pricing), the harness       *)
(* output / parser / balance reconciliation pipeline                       *)
(* (a1_system/tools/execution_tool.py, revenue_tool.py,                    *)
(* pricing/balance_validator.py), and the execution tool's handling of its *)
(* project directory and runner process over the agent's iterations.       *)
(*                                                                         *)
(* Several specifications share the module (SpecTool, SpecOracle,          *)
(* SpecRecon, SpecVerify, SpecGen, ...).  Each moves the variables of its   *)
(* own subsystem and leaves the others at their initial value.             *)
(***************************************************************************)
EXTENDS Integers, Sequences, FiniteSets, TLC

VARIABLES
    \* ---- tool-call executor ----
    calls,      \* ToolCall records, by identity: [name, status, result, error]
    batch,      \* the list handed to the executor operation in flight
    mode,       \* "single" (execute_tool_call), "parallel", "sequential"
    fresh,      \* the list in flight names distinct records, all Pending at entry
    tpc,        \* per list position: coroutine not started / awaiting the tool / done
    tout,       \* per list position: what the capability did in this execution
    bpc,        \* "idle", "running", "returned"
    ret,        \* the list of records the operation returned
    ops,        \* executor operations entered so far
    \* ---- pricing oracle ----
    sym,        \* the registry token whose prices this run follows
    cache,      \* PriceCache for sym: block-or-latest key -> entry
    now,        \* the clock, in ticks
    gp,         \* the get_token_price call in flight
    first,      \* an earlier priced call, remembered for comparison
    \* ---- harness, parser, reconciliation ----
    target,     \* registry symbol of the target contract ("UNKNOWN": not a registry token)
    rpc,        \* position of the verification cycle
    hx,         \* what the harness run did to the strategy contract's balances
    out,        \* the markers the harness printed
    data,       \* the execution tool's result data
    usd,        \* what convert_token_to_usd returned, call by call
    report,     \* the revenue tool's result data
    verdict,    \* how the agent classified the cycle
    \* ---- execution tool: project directory, runner process, outcome ----
    endpoint,   \* an RPC URL is configured for the requested chain
    iteration,  \* the agent's iteration whose exploit is being verified
    vpc,        \* position inside ConcreteExecutionTool.execute
    dirs,       \* per iteration: the temporary project directory
    procs,      \* the processes alive that some run started
    spawned,    \* the processes the run of this iteration started
    fate,       \* what happened to the run of this iteration
    run,        \* the dictionary _run_foundry_test returned
    started,    \* harness runs started for this request
    vres,       \* the ToolResult execute returned
    \* ---- tool-calling generation ----
    gpc,        \* position inside generate_with_tools
    round,      \* the loop variable `iteration`
    requests,   \* requests sent to the LLM by this generation
    asked,      \* tool calls the response of this round asked for
    allCalls,   \* all_tool_calls
    trail,      \* the tool calls in the order the executor ran them
    gres,       \* what generate_with_tools returned
    \* ---- batch USD conversion ----
    upc,        \* position inside convert_tokens_to_usd
    want,       \* token_amounts: the amount per requested token
    task,       \* the convert_token_to_usd task of each requested token
    ures,       \* the dict convert_tokens_to_usd returned
    \* ---- address checksumming ----
    text,       \* a string: an address argument, or candidate code
    sums,       \* _to_checksum_address applied to text, then to its result, ...
    rewrites,   \* _checksum_all_addresses applied to text, then to its result, ...
    \* ---- candidate code cleaning ----
    candidate,  \* exploit_code, line by line
    cleaned     \* what _clean_exploit_code returned, line by line

toolVars == <<calls, batch, mode, fresh, tpc, tout, bpc, ret, ops>>

oracleVars == <<sym, cache, now, gp, first>>

reconVars == <<target, rpc, hx, out, data, usd, report, verdict>>

verifyVars == <<endpoint, iteration, vpc, dirs, procs, spawned, fate, run, started, vres>>

genVars == <<gpc, round, requests, asked, allCalls, trail, gres>>

batchVars == <<upc, want, task, ures>>

sumVars == <<text, sums, rewrites>>

cleanVars == <<candidate, cleaned>>

vars == <<toolVars, oracleVars, reconVars, verifyVars, genVars, batchVars, sumVars, cleanVars>>

\* What each subsystem leaves alone.
notTool == <<oracleVars, reconVars, verifyVars, genVars, batchVars, sumVars, cleanVars>>
notOracle == <<toolVars, reconVars, verifyVars, genVars, batchVars, sumVars, cleanVars>>
notRecon == <<toolVars, oracleVars, verifyVars, genVars, batchVars, sumVars, cleanVars>>
notVerify == <<toolVars, oracleVars, reconVars, genVars, batchVars, sumVars, cleanVars>>
notBatch == <<toolVars, oracleVars, reconVars, verifyVars, genVars, sumVars, cleanVars>>
notSum == <<toolVars, oracleVars, reconVars, verifyVars, genVars, batchVars, cleanVars>>
notClean == <<toolVars, oracleVars, reconVars, verifyVars, genVars, batchVars, sumVars>>
notGen == <<toolVars, oracleVars, reconVars, verifyVars, batchVars, sumVars, cleanVars>>

-----------------------------------------------------------------------------
(***************************************************************************)
(* Tool-call executor                                                      *)
(***************************************************************************)

NumCalls == 3
MaxBatch == 3
MaxOps == 2

CallIds == 1..NumCalls

\* ToolCallStatus
PENDING   == "pending"
RUNNING   == "running"
COMPLETED == "completed"
FAILED    == "failed"
TIMEOUT   == "timeout"

ToolCallStatus == {PENDING, RUNNING, COMPLETED, FAILED, TIMEOUT}
Terminal == {COMPLETED, FAILED, TIMEOUT}

None == "None"

\* The registry holds one capability, "tool"; "ghost" is a name no capability has.
Registry == {"tool"}
ToolNames == {"tool", "ghost"}

\* What tool.execute(...) under asyncio.wait_for can do: return a ToolResult,
\* raise an ordinary exception, raise TimeoutError itself, or outlive the budget.
Outcomes == {"returns", "raises", "raises_timeout", "hangs"}

\* Texts that end in ToolCall.error.
ErrNotFound == "Tool not found in registry"       \* str(ValueError(...))
ErrBoom     == "boom"                             \* str(e) of the capability's error
ErrInner    == "inner timeout"                    \* str(e) of a capability's TimeoutError
ErrTimedOut == "Tool call timed out"              \* the executor's own text

\* A fresh ToolCall (dataclass defaults).
ToolCall(n) == [name |-> n, status |-> PENDING, result |-> None, error |-> None]

BatchLists == UNION {[1..n -> CallIds] : n \in 0..MaxBatch}

IsDistinct(s) == \A i, j \in 1..Len(s) : i # j => s[i] # s[j]

\* Entering an executor operation with the list cs.
Enter(cs, m) ==
    /\ bpc \in {"idle", "returned"}
    /\ ops < MaxOps
    /\ ops' = ops + 1
    /\ ret' = <<>>
    /\ batch' = cs
    /\ mode' = m
    /\ fresh' = (IsDistinct(cs) /\ \A i \in 1..Len(cs) : calls[cs[i]].status = PENDING)
    /\ tpc' = [i \in 1..Len(cs) |-> "new"]
    /\ tout' = [i \in 1..Len(cs) |-> None]
    /\ bpc' = "running"
    /\ UNCHANGED <<calls, notTool>>

\* execute_tool_call(tool_call), called directly.
Execute(c) == Enter(<<c>>, "single")

\* execute_tool_calls(tool_calls, parallel): the empty list returns [] at once.
ExecuteBatch(cs, parallel) ==
    IF cs = <<>>
    THEN /\ bpc \in {"idle", "returned"}
         /\ ops < MaxOps
         /\ ops' = ops + 1
         /\ batch' = <<>> /\ tpc' = <<>> /\ tout' = <<>>
         /\ mode' = IF parallel THEN "parallel" ELSE "sequential"
         /\ fresh' = TRUE
         /\ bpc' = "returned"
         /\ ret' = <<>>
         /\ UNCHANGED <<calls, notTool>>
    ELSE Enter(cs, IF parallel THEN "parallel" ELSE "sequential")

\* A sequential loop that does not await the call before starting the next.
MayStartWithoutAwait(i) ==
    /\ bpc = "running"
    /\ i \in 1..Len(batch)
    /\ tpc[i] = "new"
    /\ \A j \in 1..(i - 1) : tpc[j] # "new"

\* When the coroutine at position i may start: gather starts the tasks in list
\* order and waits for none of them; the sequential loop awaits each call
\* before it starts the next.
MayStart(i) ==
    /\ bpc = "running"
    /\ i \in 1..Len(batch)
    /\ tpc[i] = "new"
    /\ \A j \in 1..(i - 1) : tpc[j] # "new"
    /\ mode = "sequential" => \A j \in 1..(i - 1) : tpc[j] = "done"

\* execute_tool_call up to its first suspension: status = RUNNING, the registry
\* lookup, and the ValueError of a missing tool caught by `except Exception`.
StartCall(i) ==
    /\ MayStart(i)
    /\ LET c == batch[i] IN
       IF calls[c].name \in Registry
       THEN /\ calls' = [calls EXCEPT ![c].status = RUNNING]
            /\ tpc' = [tpc EXCEPT ![i] = "awaiting"]
            /\ UNCHANGED tout
       ELSE /\ calls' = [calls EXCEPT ![c].status = FAILED, ![c].error = ErrNotFound]
            /\ tpc' = [tpc EXCEPT ![i] = "done"]
            /\ tout' = [tout EXCEPT ![i] = "not_found"]
    /\ UNCHANGED <<batch, mode, fresh, bpc, ret, ops, notTool>>

\* The record after `await asyncio.wait_for(tool.execute(...), timeout)` ended
\* with outcome o: the try body's tail or one of the two except clauses.
\* `except asyncio.TimeoutError` comes first, so it also takes a TimeoutError the
\* capability raised.
AfterAwait(r, o) ==
    CASE o = "returns"        -> [r EXCEPT !.result = "R", !.status = COMPLETED]
      [] o = "hangs"          -> [r EXCEPT !.status = TIMEOUT, !.error = ErrTimedOut]
      [] o = "raises_timeout" -> [r EXCEPT !.status = TIMEOUT, !.error = ErrTimedOut]
      [] o = "raises"         -> [r EXCEPT !.status = FAILED, !.error = ErrBoom]

FinishCall(i, o) ==
    /\ bpc = "running"
    /\ i \in 1..Len(batch)
    /\ tpc[i] = "awaiting"
    /\ calls' = [calls EXCEPT ![batch[i]] = AfterAwait(@, o)]
    /\ tpc' = [tpc EXCEPT ![i] = "done"]
    /\ tout' = [tout EXCEPT ![i] = o]
    /\ UNCHANGED <<batch, mode, fresh, bpc, ret, ops, notTool>>

\* The list the operation returns: the input list itself, so the records in
\* input order as they are when every coroutine has finished.
Returned(cs) == [i \in 1..Len(cs) |-> calls[cs[i]]]

ReturnBatch ==
    /\ bpc = "running"
    /\ \A i \in 1..Len(batch) : tpc[i] = "done"
    /\ ret' = Returned(batch)
    /\ bpc' = "returned"
    /\ UNCHANGED <<calls, batch, mode, fresh, tpc, tout, ops, notTool>>

NextTool ==
    \/ \E c \in CallIds : Execute(c)
    \/ \E cs \in BatchLists, p \in BOOLEAN : ExecuteBatch(cs, p)
    \/ \E i \in 1..MaxBatch : StartCall(i)
    \/ \E i \in 1..MaxBatch, o \in Outcomes : FinishCall(i, o)
    \/ ReturnBatch


-----------------------------------------------------------------------------
(***************************************************************************)
(* Pricing oracle and price cache                                          *)
(*                                                                         *)
(* Prices are in thousandths of a USD, confidences in hundredths.  Time is *)
(* counted in ticks of one hour or more: two timestamps are "within one    *)
(* hour" (and an entry is "younger than five minutes") when they fall in   *)
(* the same tick.  Block 0 stands for block_number None: the code tests    *)
(* `if block_number`, so both select the "latest" key.                     *)
(***************************************************************************)

NumBlocks   == 2    \* historical blocks 1..NumBlocks; NumBlocks is the newest
MaxTime     == 2    \* the clock runs 0..MaxTime
MaxAgeTicks == 2    \* PriceCache.max_age_seconds (24 h), in ticks
MaxPrice    == 1    \* a source answers with a price in 1..MaxPrice
MaxHttp     == 3    \* HTTP requests of one CoinGecko lookup that the model follows

Latest == 0
BlockKeys == 0..NumBlocks
SourcePrices == 1..MaxPrice

\* TokenRegistry.TOKENS[1], two of its entries, and an address it does not hold.
RegistryTokens == {"ETH", "UERII"}
TokenInputs == RegistryTokens \cup {"UNKNOWN"}

\* The chains TokenRegistry.TOKENS has entries for (chain 1 stands for them),
\* and a chain id it has none for.
RegistryChains == {"mainnet"}
ChainInputs == RegistryChains \cup {"unlisted"}

\* TokenRegistry.is_native_token: the zero address, which is the address of
\* the ETH entry, or the 0xEeee... alias.
IsNativeToken(s) == s = "ETH"

\* TokenRegistry.get_native_token_info: the entry of the chain's base
\* currency, None on a chain without entries.
NativeTokenInfo(ch) == IF ch \in RegistryChains THEN "ETH" ELSE "UNKNOWN"

\* TokenInfo.chainlink_feed / TokenInfo.coingecko_id are set.
HasFeed(s) == s = "ETH"
HasCoingeckoId(s) == s \in {"ETH", "UERII"}

\* PricingOracle.fallback_rates[1]: ETH 3200.0, UERII 0.001.
FallbackEth   == 3200000
FallbackUerii == 1
FallbackRate(s) ==
    CASE s = "ETH"   -> FallbackEth
      [] s = "UERII" -> FallbackUerii
      [] OTHER       -> 0

\* Confidence of each writer.
ConfChainlinkLatest == 98
ConfChainlinkBlock  == 95
ConfDex             == 80
ConfCgCurrent       == 95
ConfCgHistorical    == 90
ConfFallback        == 30

\* confidence * 0.8 in get_price_at_block.
BlockEstimateConf(c) == (c * 8) \div 10

NoEntry == [source |-> "none"]

\* get_token_price returning None.
NoResult == [source |-> "none"]

\* A source call that produced nothing (None, an exception, or a price <= 0).
NoPrice == 0

\* PriceCacheEntry (chain_id, token_symbol and block_number are the key).
PriceCacheEntry(p, src, conf, ts) ==
    [price |-> p, source |-> src, confidence |-> conf, timestamp |-> ts, cached_at |-> now]

\* PriceCache.set_price: the entry under the key is replaced unconditionally.
SetPrice(c, k, p, src, conf, ts) == [c EXCEPT ![k] = PriceCacheEntry(p, src, conf, ts)]

\* time.time() - entry.cached_at < self.max_age_seconds
Unexpired(e) == e # NoEntry /\ now - e.cached_at < MaxAgeTicks

\* PriceCache.get_price: the entry when it is unexpired ...
CacheGet(c, k) == IF Unexpired(c[k]) THEN c[k] ELSE NoEntry

\* ... and an expired one is deleted by the read.
Purge(c, k) == IF c[k] # NoEntry /\ ~Unexpired(c[k]) THEN [c EXCEPT ![k] = NoEntry] ELSE c

\* get_block_timestamp_estimate: the newest block is dated now, an older one
\* (NumBlocks - b) ticks back, never before the floor.
EstimateTimestamp(b) == IF now - (NumBlocks - b) > 0 THEN now - (NumBlocks - b) ELSE 0

\* abs(cached.timestamp - timestamp) < 3600
WithinHour(a, b) == a = b

\* time.time() - cached.cached_at < 300
FiveMinutesOld(e) == now - e.cached_at = 0

\* PriceResult
PriceResult(p, conf, src) == [price |-> p, confidence |-> conf, source |-> src]

\* A waterfall that asks the DEX before the feed.
TierOrderDexFirst == <<"dex", "chainlink", "coingecko", "fallback">>

\* The waterfall of get_token_price, in the order of its four blocks.
TierOrder == <<"chainlink", "dex", "coingecko", "fallback">>

\* The `if` that guards each block.
Applicable(s, b, t) ==
    CASE t = "chainlink" -> HasFeed(s)
      [] t = "dex"       -> b # Latest
      [] t = "coingecko" -> HasCoingeckoId(s)
      [] t = "fallback"  -> TRUE

\* The first block after position i whose guard holds ("none" after the last).
NextTier(s, b, i) ==
    LET later == {j \in (i + 1)..Len(TierOrder) : Applicable(s, b, TierOrder[j])}
    IN  IF later = {} THEN "none"
        ELSE TierOrder[CHOOSE j \in later : \A m \in later : j <= m]

TierIndex(t) == CHOOSE j \in 1..Len(TierOrder) : TierOrder[j] = t

IdleCall ==
    [pc |-> "idle", tok |-> "UNKNOWN", blk |-> Latest, res |-> NoResult, hit |-> FALSE,
     consulted |-> <<>>, http |-> 0]

\* A tier that produced no price hands over to the next applicable one; after
\* the last the call returns None.
FallThrough(g, t) ==
    LET nxt == NextTier(sym, g.blk, TierIndex(t))
        seen == Append(g.consulted, [tier |-> t, got |-> FALSE])
    IN  IF nxt = "none"
        THEN [g EXCEPT !.pc = "done", !.res = NoResult, !.consulted = seen]
        ELSE [g EXCEPT !.pc = nxt, !.consulted = seen]

\* A tier that produced (p, conf): get_token_price returns its PriceResult.
Resolved(g, t, p, conf) ==
    [g EXCEPT !.pc = "done", !.res = PriceResult(p, conf, t),
              !.consulted = Append(g.consulted, [tier |-> t, got |-> TRUE])]

\* get_token_price up to its first await: token lookup and the cache check.
\* An address the chain's registry does not hold is an unknown token, unless
\* it is the native one: then token_info is get_native_token_info's answer,
\* and token_info.symbol raises when that is None.
GetPrice(tok, ch, b) ==
    /\ gp.pc = "idle"
    /\ tok \in {sym, "UNKNOWN"}
    /\ LET held == ch \in RegistryChains /\ tok # "UNKNOWN"
           info == IF held THEN tok
                   ELSE IF IsNativeToken(tok) THEN NativeTokenInfo(ch) ELSE "UNKNOWN"
           g == [IdleCall EXCEPT !.tok = info, !.blk = b]
           e == CacheGet(cache, b)
       IN  IF info = "UNKNOWN"
           THEN /\ gp' = [g EXCEPT !.pc = IF ~held /\ IsNativeToken(tok) THEN "raised" ELSE "done"]
                /\ UNCHANGED cache
           ELSE /\ cache' = Purge(cache, b)
                /\ gp' = IF e # NoEntry
                         THEN [g EXCEPT !.pc = "done", !.hit = TRUE,
                                        !.res = PriceResult(e.price, e.confidence, e.source)]
                         ELSE [g EXCEPT !.pc = NextTier(sym, b, 0)]
    /\ UNCHANGED <<sym, now, first, notOracle>>

\* ChainlinkClient.get_latest_price / get_historical_price on cache c with the
\* feed answering o (NoPrice: the call failed or answer <= 0): the result and the
\* cache after it.
ChainlinkLookup(c, b, o) ==
    LET e == CacheGet(c, b)
        c1 == Purge(c, b)
        conf == IF b = Latest THEN ConfChainlinkLatest ELSE ConfChainlinkBlock
        ts == IF b = Latest THEN now ELSE EstimateTimestamp(b)
    IN  IF e # NoEntry /\ e.source = "chainlink"
        THEN [price |-> e.price, conf |-> e.confidence, cache |-> c1, asked |-> FALSE]
        ELSE IF o = NoPrice
        THEN [price |-> NoPrice, conf |-> 0, cache |-> c1, asked |-> TRUE]
        ELSE [price |-> o, conf |-> conf,
              cache |-> SetPrice(c1, b, o, "chainlink", conf, ts), asked |-> TRUE]

\* DEXClient.get_token_price_via_dex with the routers answering o.
DexLookup(c, b, o) ==
    LET e == CacheGet(c, b)
        c1 == Purge(c, b)
    IN  IF e # NoEntry /\ e.source = "dex"
        THEN [price |-> e.price, conf |-> e.confidence, cache |-> c1, asked |-> FALSE]
        ELSE IF o = NoPrice
        THEN [price |-> NoPrice, conf |-> 0, cache |-> c1, asked |-> TRUE]
        ELSE [price |-> o, conf |-> ConfDex,
              cache |-> SetPrice(c1, b, o, "dex", ConfDex, now), asked |-> TRUE]

\* The cache reads CoinGeckoClient makes before any request.  For a block:
\* get_price_at_block reads the block key, then get_historical_price reads the
\* "latest" key and takes its price when its timestamp is within the hour of
\* the block's estimate.  For latest: get_current_price reads the "latest" key.
\* from = "block" / "latest": answered from that entry; "http": a request is due.
CoingeckoCached(c, b) ==
    LET eb == CacheGet(c, b)
        cb == Purge(c, b)
        e0 == CacheGet(cb, Latest)
        c0 == Purge(cb, Latest)
        est == EstimateTimestamp(b)
    IN  IF b # Latest
        THEN IF eb # NoEntry
             THEN [from |-> "block", price |-> eb.price, conf |-> eb.confidence, cache |-> cb]
             ELSE IF e0 # NoEntry /\ WithinHour(e0.timestamp, est)
             THEN [from |-> "latest", price |-> e0.price, conf |-> e0.confidence,
                   cache |-> SetPrice(c0, b, e0.price, "coingecko",
                                      BlockEstimateConf(e0.confidence), est)]
             ELSE [from |-> "http", price |-> NoPrice, conf |-> 0, cache |-> c0]
        ELSE IF eb # NoEntry /\ FiveMinutesOld(eb)
             THEN [from |-> "latest", price |-> eb.price, conf |-> eb.confidence, cache |-> cb]
             ELSE [from |-> "http", price |-> NoPrice, conf |-> 0, cache |-> cb]

\* The cache after the request answered with price p: get_historical_price
\* writes the "latest" key (it passes no block_number) and get_price_at_block
\* then writes the block key; get_current_price writes the "latest" key.
CoingeckoStore(c, b, p) ==
    IF b # Latest
    THEN SetPrice(SetPrice(c, Latest, p, "coingecko", ConfCgHistorical, EstimateTimestamp(b)),
                  b, p, "coingecko", BlockEstimateConf(ConfCgHistorical), EstimateTimestamp(b))
    ELSE SetPrice(c, Latest, p, "coingecko", ConfCgCurrent, now)

CoingeckoConf(b) == IF b = Latest THEN ConfCgCurrent ELSE ConfCgHistorical

\* _get_fallback_price: the table's rate, cached under the key.
FallbackLookup(c, s, b) ==
    IF FallbackRate(s) # 0
    THEN [price |-> FallbackRate(s), conf |-> ConfFallback,
          cache |-> SetPrice(c, b, FallbackRate(s), "fallback", ConfFallback, now)]
    ELSE [price |-> NoPrice, conf |-> 0, cache |-> c]

\* 1. _get_chainlink_price
ChainlinkStep(o) ==
    /\ gp.pc = "chainlink"
    /\ LET r == ChainlinkLookup(cache, gp.blk, o) IN
       /\ cache' = r.cache
       /\ gp' = IF r.price = NoPrice THEN FallThrough(gp, "chainlink")
                ELSE Resolved(gp, "chainlink", r.price, r.conf)
    /\ UNCHANGED <<sym, now, first, notOracle>>

\* 2. _get_dex_price
DexStep(o) ==
    /\ gp.pc = "dex"
    /\ LET r == DexLookup(cache, gp.blk, o) IN
       /\ cache' = r.cache
       /\ gp' = IF r.price = NoPrice THEN FallThrough(gp, "dex")
                ELSE Resolved(gp, "dex", r.price, r.conf)
    /\ UNCHANGED <<sym, now, first, notOracle>>

\* 3. _get_coingecko_price, up to the client's first request.
CoingeckoStep ==
    /\ gp.pc = "coingecko"
    /\ LET r == CoingeckoCached(cache, gp.blk) IN
       /\ cache' = r.cache
       /\ gp' = IF r.from = "http" THEN [gp EXCEPT !.pc = "cg_http"]
                ELSE Resolved(gp, "coingecko", r.price, r.conf)
    /\ UNCHANGED <<sym, now, first, notOracle>>

\* CoinGeckoClient._make_request: one GET.  Status 429 sleeps and calls
\* _make_request again, with no count of the attempts; another status or an
\* exception gives None; 200 gives the body, which holds the price p or none.
CoingeckoHttp(status, p) ==
    /\ gp.pc = "cg_http"
    /\ CASE status = "429" ->
              /\ p = NoPrice
              /\ gp.http + 1 < MaxHttp
              /\ gp' = [gp EXCEPT !.http = @ + 1]
              /\ UNCHANGED cache
         [] status = "error" ->
              /\ p = NoPrice
              /\ gp' = FallThrough([gp EXCEPT !.http = @ + 1], "coingecko")
              /\ UNCHANGED cache
         [] status = "200" /\ p = NoPrice ->
              /\ gp' = FallThrough([gp EXCEPT !.http = @ + 1], "coingecko")
              /\ UNCHANGED cache
         [] status = "200" /\ p # NoPrice ->
              /\ cache' = CoingeckoStore(cache, gp.blk, p)
              /\ gp' = Resolved([gp EXCEPT !.http = @ + 1], "coingecko", p,
                                CoingeckoConf(gp.blk))
    /\ UNCHANGED <<sym, now, first, notOracle>>

\* 4. _get_fallback_price
FallbackStep ==
    /\ gp.pc = "fallback"
    /\ LET r == FallbackLookup(cache, sym, gp.blk) IN
       /\ cache' = r.cache
       /\ gp' = IF r.price = NoPrice THEN FallThrough(gp, "fallback")
                ELSE Resolved(gp, "fallback", r.price, r.conf)
    /\ UNCHANGED <<sym, now, first, notOracle>>

\* The caller has the result, or the exception; the call is over.
ReturnPrice ==
    /\ gp.pc \in {"done", "raised"}
    /\ gp' = IdleCall
    /\ UNCHANGED <<sym, cache, now, first, notOracle>>

\* The same, and the caller keeps this priced result to compare a later call
\* for the same key with; the TTL window is that of the entry it rests on.
RememberPrice ==
    /\ gp.pc = "done"
    /\ gp.res # NoResult
    /\ first = NoResult
    /\ first' = [blk |-> gp.blk, price |-> gp.res.price, source |-> gp.res.source,
                 cached_at |-> cache[gp.blk].cached_at]
    /\ gp' = IdleCall
    /\ UNCHANGED <<sym, cache, now, notOracle>>

\* validate_pricing_accuracy for one test token ("ETH", "USDC", "USDT" on
\* chain 1): it calls the four tier methods directly, in the order chainlink,
\* coingecko, dex, fallback, whatever the cache holds.
ValidatePricingAccuracy(b, oCl, oCg, oDex) ==
    /\ gp.pc = "idle"
    /\ sym = "ETH"
    /\ LET r1 == ChainlinkLookup(cache, b, oCl)
           r2 == CoingeckoCached(r1.cache, b)
           c2 == IF r2.from = "http" /\ oCg # NoPrice
                 THEN CoingeckoStore(r2.cache, b, oCg) ELSE r2.cache
           c3 == IF b # Latest THEN DexLookup(c2, b, oDex).cache ELSE c2
       IN  cache' = FallbackLookup(c3, sym, b).cache
    /\ UNCHANGED <<sym, now, gp, first, notOracle>>

\* Time passes between calls.
Tick ==
    /\ gp.pc = "idle"
    /\ now < MaxTime
    /\ now' = now + 1
    /\ UNCHANGED <<sym, cache, gp, first, notOracle>>

Answers == SourcePrices \cup {NoPrice}

HttpStatus == {"200", "429", "error"}

NextOracle ==
    \/ \E tok \in TokenInputs, ch \in ChainInputs, b \in BlockKeys : GetPrice(tok, ch, b)
    \/ \E o \in Answers : ChainlinkStep(o)
    \/ \E o \in Answers : DexStep(o)
    \/ CoingeckoStep
    \/ \E status \in HttpStatus, p \in Answers : CoingeckoHttp(status, p)
    \/ FallbackStep
    \/ ReturnPrice
    \/ RememberPrice
    \/ \E b \in BlockKeys, oCl \in Answers, oCg \in Answers, oDex \in Answers :
          ValidatePricingAccuracy(b, oCl, oCg, oDex)
    \/ Tick

-----------------------------------------------------------------------------
(***************************************************************************)
(* Harness, output parser, balance reconciliation and validator            *)
(*                                                                         *)
(* Native-currency amounts are counted in ether: the harness prints wei    *)
(* and the parser divides by 10**18, so a printed amount of k * 10**18 is  *)
(* the parsed amount k.  Every amount of the model is a whole number, and  *)
(* the dust test abs(x) > 1e-12 is x # 0.  Token amounts are raw units.    *)
(***************************************************************************)

MaxDelta   == 2     \* the run moves the strategy contract's ether by at most this
MaxTok     == 2     \* token balances of the strategy contract are 0..MaxTok
MaxEntries == 3     \* entries of balance_analysis.token_balances
MaxBal     == 1     \* before / after of such an entry are at most MaxBal
MaxNeg     == 2     \* ... and at least 0 - MaxNeg

\* Config.initial_eth_balance, the ether the harness deals to the strategy contract.
InitialEthBalance == 100000
\* RevenueNormalizerTool.INITIAL_BALANCES[1]["ETH"]
RevenueInitialEth == 100000
\* BalanceInvariantValidator.PAPER_INITIAL_BALANCES[1]
PaperEth  == 100000
PaperUsdc == 10000000

\* A marker that was not printed / a key that is not there.
Absent == 0 - 1
\* Python None as the value of an Optional[float].
Unavailable == 0 - 1

BaseCurrency == "ETH"
TargetSymbols == {"USDC", "UNKNOWN"}
\* USD prices the oracle may answer with for a registry token and for ETH.
TokenUsdPrices == {2, 4}
BaseUsdPrices == {1, 2}

NoRun == [outcome |-> "none"]
NoOutput == [success |-> FALSE]
NoData == [success |-> FALSE]
NoReport == [success |-> FALSE]

\* uint256 tokensExtracted = final > initial ? final - initial : 0 (ERC20 targets only)
TokensExtracted(erc20, ti, tf) == IF erc20 /\ tf > ti THEN tf - ti ELSE 0

\* uint256 ethGained = finalExploitEth > initialExploitEth ? final - initial : 0
EthGained(e0, e1) == IF e1 > e0 THEN e1 - e0 ELSE 0

\* ethFromTokens, in the unit of the model: what the harness's valuation of
\* the tokens adds to the ether gained.
EthFromTokens(fromTokens) == IF fromTokens THEN 1 ELSE 0

\* What testExploit prints when the exploit did not revert.  minted: the rise
\* of totalSupply; fromTokens: the harness valued the tokens above zero;
\* storage: one of the watched storage slots of the target changed.
HarnessOutput(e0, e1, erc20, ti, tf, minted, fromTokens, storage) ==
    LET te == TokensExtracted(erc20, ti, tf) IN
    [success |-> TRUE,
     EXPLOIT_EXECUTED_SUCCESSFULLY |-> TRUE,
     STORAGE_CHANGE_DETECTED |-> storage,
     EXPLOIT_CAUSED_STATE_CHANGES |-> storage,
     TOKENS_MINTED_DETECTED |-> IF minted > 0 THEN minted ELSE Absent,
     FINAL_TOKEN_BALANCE |-> IF erc20 THEN tf ELSE Absent,
     TOKENS_EXTRACTED |-> IF te > 0 THEN te ELSE Absent,
     ETH_GAINED |-> EthGained(e0, e1),
     ETH_EQUIVALENT |-> EthGained(e0, e1) + EthFromTokens(fromTokens),
     EXPLOIT_PROFITABLE |-> (EthGained(e0, e1) + EthFromTokens(fromTokens) > 0 \/ te > 0),
     printed |-> {"EXPLOIT_EXECUTED_SUCCESSFULLY", "EXPLOIT_CAUSED_STATE_CHANGES",
                  "ETH_GAINED", "ETH_EQUIVALENT", "EXPLOIT_PROFITABLE"}
                 \cup (IF erc20 THEN {"FINAL_TOKEN_BALANCE"} ELSE {})]

\* forge exits non-zero before the harness printed a marker that counts
\* (compile error, reverting exploit, timeout): no output is parsed.
FailedOutput ==
    [success |-> FALSE,
     EXPLOIT_EXECUTED_SUCCESSFULLY |-> FALSE,
     STORAGE_CHANGE_DETECTED |-> FALSE,
     EXPLOIT_CAUSED_STATE_CHANGES |-> FALSE,
     TOKENS_MINTED_DETECTED |-> Absent,
     FINAL_TOKEN_BALANCE |-> Absent,
     TOKENS_EXTRACTED |-> Absent,
     ETH_GAINED |-> Absent,
     ETH_EQUIVALENT |-> Absent,
     EXPLOIT_PROFITABLE |-> FALSE,
     printed |-> {}]

\* exploit() reverted: the catch clause prints the reason and
\* EXPLOIT_EXECUTED_SUCCESSFULLY: false and reverts the test, so nothing of
\* what follows the try statement is printed.
RevertOutput == [FailedOutput EXCEPT !.printed = {"EXPLOIT_EXECUTED_SUCCESSFULLY"}]

\* The exploit completed and the test failed afterwards: the checked
\* multiplication totalTokensProcessed * ethPerToken of the token valuation
\* overflowed.  Everything printed up to there is in the output.
PanicOutput(erc20, ti, tf, minted, storage) ==
    [HarnessOutput(0, 0, erc20, ti, tf, minted, FALSE, storage) EXCEPT
        !.success = FALSE, !.ETH_GAINED = Absent, !.ETH_EQUIVALENT = Absent,
        !.EXPLOIT_PROFITABLE = FALSE,
        !.printed = @ \ {"ETH_GAINED", "ETH_EQUIVALENT", "EXPLOIT_PROFITABLE"}]

\* How a run of forge test ends.
RunOutcomes == {"pass", "compile", "revert", "timeout", "panic"}

\* _run_foundry_test on the generated project.
RunHarness(e1, erc20, ti, tf, minted, fromTokens, storage, outcome) ==
    /\ ~erc20 => (ti = 0 /\ tf = 0 /\ minted = 0)
    /\ fromTokens => (minted > 0 \/ TokensExtracted(erc20, ti, tf) > 0)
    /\ outcome \in {"compile", "revert", "timeout"} =>
          (e1 = InitialEthBalance /\ tf = ti /\ minted = 0 /\ ~fromTokens /\ ~storage)
    /\ outcome = "panic" =>
          (e1 = InitialEthBalance /\ ~fromTokens
           /\ (minted > 0 \/ TokensExtracted(erc20, ti, tf) > 0))
    /\ hx' = [outcome |-> outcome,
              ethInitial |-> InitialEthBalance, ethFinal |-> e1,
              erc20 |-> erc20, tokInitial |-> ti, tokFinal |-> tf]
    /\ out' = CASE outcome = "pass" ->
                     HarnessOutput(InitialEthBalance, e1, erc20, ti, tf, minted,
                                   fromTokens, storage)
                [] outcome = "panic" -> PanicOutput(erc20, ti, tf, minted, storage)
                [] outcome = "revert" -> RevertOutput
                [] OTHER -> FailedOutput
    /\ rpc' = "ran"
    /\ UNCHANGED <<target, data, usd, report, verdict, notRecon>>

\* The first of the token patterns that matches the output.
FirstTokenMatch(o) ==
    IF o.TOKENS_MINTED_DETECTED # Absent THEN o.TOKENS_MINTED_DETECTED
    ELSE IF o.TOKENS_EXTRACTED # Absent THEN o.TOKENS_EXTRACTED
    ELSE o.FINAL_TOKEN_BALANCE

\* A parser that takes the executed flag from the storage-change marker
\* alone, without the success marker and without the final determination.
AnalyzeByStateChangeOnly(o) ==
    IF ~o.success
    THEN [success |-> TRUE, profitable |-> FALSE, exploit_executed_successfully |-> FALSE,
          eth_gained |-> 0, tokens_extracted |-> Absent, balance_analysis |-> <<>>]
    ELSE LET eth == IF o.ETH_GAINED # Absent THEN o.ETH_GAINED ELSE 0
         IN  [success |-> TRUE,
              profitable |-> (o.EXPLOIT_PROFITABLE \/ eth > 0),
              exploit_executed_successfully |-> o.EXPLOIT_CAUSED_STATE_CHANGES,
              eth_gained |-> eth,
              tokens_extracted |-> FirstTokenMatch(o),
              balance_analysis |-> <<>>]

\* _analyze_execution_result and the result data execute() builds from it.
AnalyzeExecutionResult(o) ==
    IF ~o.success
    THEN [success |-> TRUE, profitable |-> FALSE, exploit_executed_successfully |-> FALSE,
          eth_gained |-> 0, tokens_extracted |-> Absent, balance_analysis |-> <<>>]
    ELSE LET eth == IF o.ETH_GAINED # Absent THEN o.ETH_GAINED ELSE 0
             tok == FirstTokenMatch(o)
         IN  [success |-> TRUE,
              profitable |-> (o.EXPLOIT_PROFITABLE \/ eth > 0),
              exploit_executed_successfully |->
                  (o.EXPLOIT_EXECUTED_SUCCESSFULLY \/ o.EXPLOIT_CAUSED_STATE_CHANGES
                   \/ tok > 0 \/ eth > 0 \/ o.STORAGE_CHANGE_DETECTED),
              eth_gained |-> eth,
              tokens_extracted |-> tok,
              balance_analysis |-> <<>>]

Analyze ==
    /\ rpc = "ran"
    /\ data' = AnalyzeExecutionResult(out)
    /\ rpc' = "analysed"
    /\ UNCHANGED <<target, hx, out, usd, report, verdict, notRecon>>

\* BalanceChange
BalanceChange(s, init, fin) ==
    [token_symbol |-> s, initial_balance |-> init, final_balance |-> fin,
     net_change |-> fin - init, is_surplus |-> fin - init > 0]

NotDust(t) == t.after - t.before # 0

\* _extract_balance_changes
ExtractBalanceChanges(d) ==
    LET kept == SelectSeq(d.balance_analysis, NotDust)
    IN  [i \in 1..Len(kept) |-> BalanceChange(kept[i].symbol, kept[i].before, kept[i].after)]

\* _legacy_balance_extraction
LegacyBalanceExtraction(d) ==
    (IF d.eth_gained # 0
     THEN <<BalanceChange(BaseCurrency, RevenueInitialEth, RevenueInitialEth + d.eth_gained)>>
     ELSE <<>>)
    \o
    (IF d.tokens_extracted # Absent /\ d.tokens_extracted # 0
     THEN <<BalanceChange(target, 0, d.tokens_extracted)>>
     ELSE <<>>)

\* get_token_price for the address of a change: None for an address the
\* registry lacks, else the price tp of some tier (the table has every entry).
TokenPrice(s, tp) == IF s = "UNKNOWN" THEN NoPrice ELSE tp

\* convert_token_to_usd
ConvertTokenToUsd(amount, price) == IF price = NoPrice THEN Unavailable ELSE amount * price

\* normalize_to_base_currency
NormalizeToBaseCurrency(amount, price, bp) ==
    LET token_usd_value == ConvertTokenToUsd(amount, price)
    IN  IF token_usd_value = Unavailable \/ token_usd_value = 0
        THEN Unavailable
        ELSE token_usd_value \div bp

\* _convert_surplus_token
ConvertSurplusToken(ch, tp, bp) ==
    LET n == NormalizeToBaseCurrency(ch.net_change, TokenPrice(ch.token_symbol, tp), bp)
        base_value == IF n = Unavailable THEN 0 ELSE n
    IN  [token |-> ch.token_symbol, amount |-> ch.net_change, base_value |-> base_value,
         conversion_rate |-> IF ch.net_change > 0 THEN base_value \div ch.net_change ELSE 0,
         route |-> None, method |-> "unified_pricing_oracle"]

\* _resolve_deficit_token
ResolveDeficitToken(ch, tp, bp) ==
    LET n == NormalizeToBaseCurrency(0 - ch.net_change, TokenPrice(ch.token_symbol, tp), bp)
    IN  [token |-> ch.token_symbol, deficit_amount |-> 0 - ch.net_change,
         acquisition_cost_base |-> IF n = Unavailable THEN 0 ELSE n,
         method |-> "unified_pricing_oracle"]

\* The three branches of the loop of Step 2.
IsBaseChange(ch) == ch.token_symbol = BaseCurrency
IsSurplusChange(ch) == ~IsBaseChange(ch) /\ ch.is_surplus /\ ch.net_change > 0
IsDeficitChange(ch) == ~IsBaseChange(ch) /\ ~ch.is_surplus /\ ch.net_change < 0

RECURSIVE SumNetChange(_)
SumNetChange(chs) ==
    IF chs = <<>> THEN 0 ELSE Head(chs).net_change + SumNetChange(Tail(chs))

RECURSIVE SumBaseValue(_)
SumBaseValue(convs) ==
    IF convs = <<>> THEN 0 ELSE Head(convs).base_value + SumBaseValue(Tail(convs))

\* Step 3 with the surplus left out.
DirectChangeOnly(direct, surplus) == direct

\* Step 3: total_base_currency_profit = base_currency_change + total_surplus_value
TotalBaseCurrencyProfit(direct, surplus) == direct + surplus

\* A validator that reports the whole initial balance as the depleted amount.
RECURSIVE ValidateDepletionOfInitial(_)
ValidateDepletionOfInitial(chs) ==
    IF chs = <<>> THEN <<>>
    ELSE LET ch == Head(chs) IN
         (IF ch.final_balance < ch.initial_balance
          THEN <<[token |-> ch.token_symbol, initial |-> ch.initial_balance,
                  final |-> ch.final_balance, violation |-> ch.initial_balance,
                  type |-> "depletion"]>>
          ELSE <<>>)
         \o
         (IF ch.final_balance < 0
          THEN <<[token |-> ch.token_symbol, initial |-> ch.initial_balance,
                  final |-> ch.final_balance, violation |-> 0 - ch.final_balance,
                  type |-> "negative_balance"]>>
          ELSE <<>>)
         \o ValidateDepletionOfInitial(Tail(chs))

\* A validator whose negative-balance check is the alternative of the
\* depletion check (elif) instead of a check of its own.
RECURSIVE ValidateNegativeOrDepletion(_)
ValidateNegativeOrDepletion(chs) ==
    IF chs = <<>> THEN <<>>
    ELSE LET ch == Head(chs) IN
         (IF ch.final_balance < ch.initial_balance
          THEN <<[token |-> ch.token_symbol, initial |-> ch.initial_balance,
                  final |-> ch.final_balance,
                  violation |-> ch.initial_balance - ch.final_balance,
                  type |-> "depletion"]>>
          ELSE IF ch.final_balance < 0
          THEN <<[token |-> ch.token_symbol, initial |-> ch.initial_balance,
                  final |-> ch.final_balance, violation |-> 0 - ch.final_balance,
                  type |-> "negative_balance"]>>
          ELSE <<>>)
         \o ValidateNegativeOrDepletion(Tail(chs))

\* validate_balance_invariant
RECURSIVE ValidateBalanceInvariant(_)
ValidateBalanceInvariant(chs) ==
    IF chs = <<>> THEN <<>>
    ELSE LET ch == Head(chs) IN
         (IF ch.final_balance < ch.initial_balance
          THEN <<[token |-> ch.token_symbol, initial |-> ch.initial_balance,
                  final |-> ch.final_balance,
                  violation |-> ch.initial_balance - ch.final_balance,
                  type |-> "depletion"]>>
          ELSE <<>>)
         \o
         (IF ch.final_balance < 0
          THEN <<[token |-> ch.token_symbol, initial |-> ch.initial_balance,
                  final |-> ch.final_balance, violation |-> 0 - ch.final_balance,
                  type |-> "negative_balance"]>>
          ELSE <<>>)
         \o ValidateBalanceInvariant(Tail(chs))

\* PAPER_INITIAL_BALANCES[1] for the symbols of the model.
PaperBalance(s) ==
    CASE s = "ETH"  -> PaperEth
      [] s = "USDC" -> PaperUsdc
      [] OTHER      -> Absent

\* validate_paper_compliance
RECURSIVE ValidatePaperCompliance(_)
ValidatePaperCompliance(chs) ==
    IF chs = <<>> THEN <<>>
    ELSE LET ch == Head(chs) IN
         (IF PaperBalance(ch.token_symbol) # Absent
             /\ ch.final_balance < PaperBalance(ch.token_symbol)
          THEN <<[token |-> ch.token_symbol, initial |-> PaperBalance(ch.token_symbol),
                  final |-> ch.final_balance,
                  violation |-> PaperBalance(ch.token_symbol) - ch.final_balance,
                  type |-> "insufficient_funds"]>>
          ELSE <<>>)
         \o ValidatePaperCompliance(Tail(chs))

\* Steps 1b-6 of RevenueNormalizerTool.execute on the balance changes, the
\* oracle pricing registry tokens at tp and the base currency at bp.
RevenueReport(changes, tp, bp) ==
    LET direct == SumNetChange(SelectSeq(changes, IsBaseChange))
        surplus == SelectSeq(changes, IsSurplusChange)
        deficit == SelectSeq(changes, IsDeficitChange)
        convs == [i \in 1..Len(surplus) |-> ConvertSurplusToken(surplus[i], tp, bp)]
        total == TotalBaseCurrencyProfit(direct, SumBaseValue(convs))
        inv == ValidateBalanceInvariant(changes)
        paper == ValidatePaperCompliance(changes)
    IN  [success |-> TRUE,
         revenue_base_currency |-> total,
         revenue_usd |-> total * bp,
         is_profitable |-> (total * bp > 1 \/ total > 0),
         profit_threshold_met |-> total * bp > 100,
         direct_base_change |-> direct,
         surplus_conversions |-> convs,
         deficit_resolutions |->
             [i \in 1..Len(deficit) |-> ResolveDeficitToken(deficit[i], tp, bp)],
         total_surplus_value |-> SumBaseValue(convs),
         balance_changes |-> changes,
         base_currency_usd_rate |-> bp,
         balance_invariant_enforced |-> inv = <<>>,
         paper_methodology_compliant |-> paper = <<>>,
         invariant_violations |-> inv,
         paper_compliance_violations |-> paper]

\* Step 1: the structured balance data, else the legacy figures.
ChangesOf(d) ==
    LET structured == ExtractBalanceChanges(d)
    IN  IF structured # <<>> THEN structured ELSE LegacyBalanceExtraction(d)

\* A revenue tool that withholds the profit figures when the validator
\* reports a violation.
RevenueDataBlockedByViolations(d, tp, bp) ==
    LET r == RevenueReport(ChangesOf(d), tp, bp)
    IN  IF r.invariant_violations = <<>> THEN r
        ELSE [r EXCEPT !.revenue_base_currency = 0, !.revenue_usd = 0,
                       !.is_profitable = FALSE, !.profit_threshold_met = FALSE]

\* RevenueNormalizerTool.execute on the execution data d.
RevenueData(d, tp, bp) == RevenueReport(ChangesOf(d), tp, bp)

\* The convert_token_to_usd calls of that execution, in the order of the loop.
UsdCalls(d, tp) ==
    LET changes == ChangesOf(d)
        priced == SelectSeq(changes, LAMBDA ch : IsSurplusChange(ch) \/ IsDeficitChange(ch))
        Abs(x) == IF x < 0 THEN 0 - x ELSE x
    IN  [i \in 1..Len(priced) |->
            [token |-> priced[i].token_symbol, amount |-> Abs(priced[i].net_change),
             returned |-> ConvertTokenToUsd(Abs(priced[i].net_change),
                                            TokenPrice(priced[i].token_symbol, tp))]]

\* _normalize_revenue: the revenue tool on the execution result.
NormalizeRevenue(tp, bp) ==
    /\ report' = RevenueData(data, tp, bp)
    /\ usd' = UsdCalls(data, tp)
    /\ rpc' = "reported"
    /\ UNCHANGED <<target, hx, out, data, notRecon>>

\* ... and is skipped otherwise: an exploit that executed without the
\* execution tool calling it profitable is recorded as executed but not
\* profitable, any other as failed to execute.
SkipRevenue ==
    /\ rpc = "analysed"
    /\ ~(data.success /\ data.exploit_executed_successfully /\ data.profitable)
    /\ rpc' = "skipped"
    /\ verdict' = IF data.success /\ data.exploit_executed_successfully
                  THEN "not_profitable" ELSE "failed"
    /\ UNCHANGED <<target, hx, out, data, usd, report, notRecon>>

TokenBalanceEntries ==
    [symbol : {BaseCurrency} \cup TargetSymbols,
     before : (0 - MaxNeg)..MaxBal, after : (0 - MaxNeg)..MaxBal]

\* The revenue tool called with an execution result that carries
\* balance_analysis.token_balances.
ReconcileStructured(entries, tp, bp) ==
    /\ data' = [success |-> TRUE, profitable |-> FALSE,
                exploit_executed_successfully |-> FALSE, eth_gained |-> 0,
                tokens_extracted |-> Absent, balance_analysis |-> entries]
    /\ report' = RevenueData(data', tp, bp)
    /\ usd' = UsdCalls(data', tp)
    /\ rpc' = "reported"
    /\ UNCHANGED <<target, hx, out, verdict, notRecon>>

\* The execution tool is run on a candidate.
Execution ==
    /\ rpc = "ready"
    /\ \E d \in (0 - MaxDelta)..MaxDelta, erc20 \in BOOLEAN, ti \in 0..MaxTok,
          tf \in 0..MaxTok, minted \in 0..1, fromTokens \in BOOLEAN,
          storage \in BOOLEAN, outcome \in RunOutcomes :
          RunHarness(InitialEthBalance + d, erc20, ti, tf, minted, fromTokens, storage, outcome)

\* A1Agent: profitable when the revenue tool confirms it or the execution
\* tool found ether gained; else the two disagree and the search continues.
FinalVerdict(rev, d) ==
    IF rev.is_profitable \/ d.eth_gained > 0 THEN "profitable" ELSE "not_profitable"

\* A1Agent: the revenue tool runs when the execution tool reports the exploit
\* executed and profitable.
AgentNormalizes ==
    /\ rpc = "analysed"
    /\ data.success /\ data.exploit_executed_successfully /\ data.profitable
    /\ \E tp \in TokenUsdPrices, bp \in BaseUsdPrices : NormalizeRevenue(tp, bp)
    /\ verdict' = FinalVerdict(report', data)

\* The revenue tool is called with structured balance data.
DirectReconcile ==
    /\ rpc = "ready"
    /\ \E n \in 1..MaxEntries : \E entries \in [1..n -> TokenBalanceEntries] :
          \E tp \in TokenUsdPrices, bp \in BaseUsdPrices : ReconcileStructured(entries, tp, bp)

NextRecon ==
    \/ Execution
    \/ Analyze
    \/ AgentNormalizes
    \/ SkipRevenue
    \/ DirectReconcile

-----------------------------------------------------------------------------
(***************************************************************************)
(* Execution tool: the temporary project, the runner process and the       *)
(* outcome handed to the agent, iteration after iteration                  *)
(***************************************************************************)

MaxIterations == 2  \* Config.max_iterations
MaxChildren == 1    \* processes the runner may have spawned by the time it is killed

Iterations == 1..MaxIterations
Runner == 0
Children == 1..MaxChildren

ErrNoFoundry == "Foundry not found. Install with: curl -L https://foundry.paradigm.xyz | bash"
ErrCreateProject == "Failed to create Foundry project"
ErrExecution == "Execution error"
ErrTestTimedOut == "Test execution timed out"
ErrSpawn == "str(e)"
RevertText == "revert reason"

\* How a harness run can end.
Exits == {"pass", "compile", "revert"}

NoDict == [success |-> FALSE, compiled |-> FALSE, error |-> None, revert_reason |-> None,
           returned |-> FALSE]
NoToolResult == [success |-> FALSE, error_message |-> None, has_data |-> FALSE,
                 execution_successful |-> FALSE, compilation_successful |-> FALSE,
                 revert_reason |-> None, returned |-> FALSE]

\* ToolResult(success=False, data={}, error_message=msg)
FailedToolResult(msg) == [NoToolResult EXCEPT !.error_message = msg, !.returned = TRUE]

\* execute up to the mkdtemp of _create_foundry_project; without forge it
\* returns before anything is created.
BeginVerify ==
    /\ vpc = "idle"
    /\ \/ /\ vres' = FailedToolResult(ErrNoFoundry)
          /\ vpc' = "returned"
          /\ UNCHANGED dirs
       \/ /\ dirs' = [dirs EXCEPT ![iteration] = "exists"]
          /\ vpc' = "creating"
          /\ UNCHANGED vres
    /\ UNCHANGED <<endpoint, iteration, procs, spawned, fate, run, started, notVerify>>

\* _create_foundry_config raises ValueError when the chain has no RPC URL.
ConfigRaises == ~endpoint

\* The rest of _create_foundry_project: forge init, foundry.toml, the test
\* and helper files.  A failed init returns None, every exception is caught
\* and returns None; execute then returns without touching the directory.
CreateProject(initOk, writeOk) ==
    /\ vpc = "creating"
    /\ IF initOk /\ ~ConfigRaises /\ writeOk
       THEN /\ vpc' = "created"
            /\ UNCHANGED vres
       ELSE /\ vres' = FailedToolResult(ErrCreateProject)
            /\ vpc' = "returned"
    /\ UNCHANGED <<endpoint, iteration, dirs, procs, spawned, fate, run, started, notVerify>>

\* The dictionary of a run that ended before the timeout.
ExitDict(kind) ==
    LET mentionsCompilation == kind = "compile"
        mentionsFailed == TRUE
    IN  [success |-> kind = "pass",
         compiled |-> ~mentionsCompilation \/ ~mentionsFailed,
         error |-> None,
         revert_reason |-> IF kind = "pass" THEN None ELSE RevertText,
         returned |-> TRUE]

\* The dictionary of a run that was cut off or could not be started.
ErrorDict(msg) ==
    [success |-> FALSE, compiled |-> FALSE, error |-> msg, revert_reason |-> None,
     returned |-> TRUE]

\* _run_foundry_test: create_subprocess_exec and the wait for communicate().
SpawnRunner(ok) ==
    /\ vpc = "created"
    /\ IF ok
       THEN /\ procs' = procs \cup {<<iteration, Runner>>}
            /\ spawned' = {<<iteration, Runner>>}
            /\ started' = started + 1
            /\ vpc' = "running"
            /\ UNCHANGED <<fate, run>>
       ELSE /\ fate' = "spawn_error"
            /\ run' = ErrorDict(ErrSpawn)
            /\ vpc' = "ran"
            /\ UNCHANGED <<procs, spawned, started>>
    /\ UNCHANGED <<endpoint, iteration, dirs, vres, notVerify>>

\* forge starts a process of its own (the compiler, a helper).
RunnerForks(c) ==
    /\ vpc = "running"
    /\ <<iteration, c>> \notin spawned
    /\ procs' = procs \cup {<<iteration, c>>}
    /\ spawned' = spawned \cup {<<iteration, c>>}
    /\ UNCHANGED <<endpoint, iteration, vpc, dirs, fate, run, started, vres, notVerify>>

\* The runner and what it started end within the timeout.
RunnerExits(kind) ==
    /\ vpc = "running"
    /\ procs' = procs \ spawned
    /\ fate' = kind
    /\ run' = ExitDict(kind)
    /\ vpc' = "ran"
    /\ UNCHANGED <<endpoint, iteration, dirs, spawned, started, vres, notVerify>>

\* process.kill(): SIGKILL to the runner alone.
KillRunner(ps) == ps \ {<<iteration, Runner>>}

\* asyncio.TimeoutError: the runner is killed and the timeout dictionary returned.
RunnerTimesOut ==
    /\ vpc = "running"
    /\ procs' = KillRunner(procs)
    /\ fate' = "timeout"
    /\ run' = ErrorDict(ErrTestTimedOut)
    /\ vpc' = "ran"
    /\ UNCHANGED <<endpoint, iteration, dirs, spawned, started, vres, notVerify>>

\* The result data execute builds from the run's dictionary.
ResultData(d) ==
    [success |-> TRUE, error_message |-> None, has_data |-> TRUE,
     execution_successful |-> d.success,
     compilation_successful |-> d.compiled,
     revert_reason |-> d.revert_reason,
     returned |-> TRUE]

\* _cleanup_temp_dir
CleanupTempDir(ds) == [ds EXCEPT ![iteration] = "deleted"]

\* The try / finally of execute: analysis, result data, artifacts, and the
\* cleanup on the way out; an exception on the way becomes a failed result.
FinishVerify(raises) ==
    /\ vpc = "ran"
    /\ vres' = IF raises THEN FailedToolResult(ErrExecution) ELSE ResultData(run)
    /\ dirs' = CleanupTempDir(dirs)
    /\ vpc' = "returned"
    /\ UNCHANGED <<endpoint, iteration, procs, spawned, fate, run, started, notVerify>>

\* analyze_contract: whatever the result, the loop goes on to the next
\* iteration, generates another exploit and executes it.
NextIteration ==
    /\ vpc = "returned"
    /\ iteration < MaxIterations
    /\ iteration' = iteration + 1
    /\ vpc' = "idle"
    /\ spawned' = {}
    /\ fate' = "none"
    /\ run' = NoDict
    /\ vres' = NoToolResult
    /\ UNCHANGED <<endpoint, dirs, procs, started, notVerify>>

NextVerify ==
    \/ BeginVerify
    \/ \E initOk, writeOk \in BOOLEAN : CreateProject(initOk, writeOk)
    \/ \E ok \in BOOLEAN : SpawnRunner(ok)
    \/ \E c \in Children : RunnerForks(c)
    \/ \E kind \in Exits : RunnerExits(kind)
    \/ RunnerTimesOut
    \/ \E raises \in BOOLEAN : FinishVerify(raises)
    \/ NextIteration

-----------------------------------------------------------------------------
(***************************************************************************)
(* Batch USD conversion: PricingOracle.convert_tokens_to_usd               *)
(***************************************************************************)

MaxAmount == 2      \* a requested amount is 0..MaxAmount

\* The keys a token_amounts dict may hold.
BatchTokens == TokenInputs

NoTask == [state |-> "none", value |-> 0]
PendingTask == [state |-> "pending", value |-> 0]
\* The task ended with an exception, which gather hands back as a value.
RaisedTask == [state |-> "raised", value |-> 0]
\* The task returned v, the value of convert_token_to_usd (Unavailable for None).
ReturnedTask(v) == [state |-> "returned", value |-> v]

Requested(t) == want[t] # Absent

\* A batch that passes the single conversion's value through as it is.
ValueAsReturned(o) == IF o.state = "raised" THEN 0 ELSE o.value

\* The loop over zip(addresses, usd_values): 0.0 for an exception, and
\* `usd_value or 0.0` otherwise.
BatchValue(o) ==
    IF o.state = "raised" THEN 0
    ELSE IF o.value = Unavailable \/ o.value = 0 THEN 0 ELSE o.value

\* convert_tokens_to_usd up to the gather: one task per key of token_amounts.
ConvertTokensToUsd(amts) ==
    /\ upc = "idle"
    /\ want' = amts
    /\ task' = [t \in BatchTokens |-> IF amts[t] # Absent THEN PendingTask ELSE NoTask]
    /\ ures' = [t \in BatchTokens |-> Absent]
    /\ upc' = "gathering"
    /\ UNCHANGED notBatch

\* One task ends, in any order among the pending ones: get_token_price gave
\* the price p (NoPrice: None) and the task returns the conversion, or it raised.
TaskEnds(t, p, raises) ==
    /\ upc = "gathering"
    /\ task[t].state = "pending"
    /\ task' = [task EXCEPT ![t] = IF raises THEN RaisedTask
                                   ELSE ReturnedTask(ConvertTokenToUsd(want[t], p))]
    /\ UNCHANGED <<upc, want, ures, notBatch>>

\* gather(return_exceptions=True) is over when every task is; the results
\* dict gets one entry per task.
GatherReturns ==
    /\ upc = "gathering"
    /\ \A t \in BatchTokens : task[t].state # "pending"
    /\ ures' = [t \in BatchTokens |-> IF Requested(t) THEN BatchValue(task[t]) ELSE Absent]
    /\ upc' = "returned"
    /\ UNCHANGED <<want, task, notBatch>>

\* The caller has the dict.
BatchOver ==
    /\ upc = "returned"
    /\ upc' = "idle"
    /\ UNCHANGED <<want, task, ures, notBatch>>

TokenAmounts == [BatchTokens -> (0..MaxAmount) \cup {Absent}]

NextBatch ==
    \/ \E amts \in TokenAmounts : ConvertTokensToUsd(amts)
    \/ \E t \in BatchTokens, p \in TokenUsdPrices \cup {NoPrice}, raises \in BOOLEAN :
          TaskEnds(t, p, raises)
    \/ GatherReturns
    \/ BatchOver

-----------------------------------------------------------------------------
(***************************************************************************)
(* Address checksumming: _to_checksum_address, _checksum_all_addresses     *)
(*                                                                         *)
(* A string is a sequence of characters from a small alphabet: a digit, a  *)
(* hex letter in both cases, and the letter x.  An address has             *)
(* AddressLength hex characters after the 0x mark (40 in the source).      *)
(***************************************************************************)

MaxText == 5            \* a string has at most this many characters
AddressLength == 2      \* hex characters of an address
MaxApplications == 2    \* how often a function is re-applied to its result

Chars == {"0", "a", "A", "x"}

RECURSIVE StringsOf(_)
StringsOf(n) ==
    IF n = 0 THEN {<<>>}
    ELSE LET shorter == StringsOf(n - 1)
         IN  shorter \cup {Append(t, c) : t \in {u \in shorter : Len(u) = n - 1}, c \in Chars}

Texts == StringsOf(MaxText)

\* str.lower
Lower(t) == [i \in 1..Len(t) |-> IF t[i] = "A" THEN "a" ELSE t[i]]

\* str.replace('0x', ''): every occurrence found by one scan from the left is
\* removed; what the removals bring together is not scanned again.
RECURSIVE RemoveMarks(_)
RemoveMarks(t) ==
    IF Len(t) < 2 THEN t
    ELSE IF t[1] = "0" /\ t[2] = "x" THEN RemoveMarks(SubSeq(t, 3, Len(t)))
    ELSE <<t[1]>> \o RemoveMarks(Tail(t))

\* c in '0123456789abcdef'
IsLowerHex(c) == c \in {"0", "a"}

\* int(address_hash[i], 16) >= 8, with address_hash the keccak256 of the
\* lower-case address: a fixed function of that address and the position.
HashDigitHigh(a, i) == (Cardinality({k \in 1..Len(a) : a[k] = "a"}) + i) % 2 = 0

\* _to_checksum_address
ToChecksumAddress(address) ==
    LET a == RemoveMarks(Lower(address))
    IN  IF Len(a) # AddressLength \/ \E i \in 1..Len(a) : ~IsLowerHex(a[i])
        THEN <<"0", "x">> \o a
        ELSE <<"0", "x">> \o
             [i \in 1..Len(a) |->
                 IF a[i] = "0" THEN a[i]
                 ELSE IF HashDigitHigh(a, i) THEN "A" ELSE "a"]

\* The pattern 0x[a-fA-F0-9]{40} matches at the head of t.
AddressAtHead(t) ==
    /\ Len(t) >= AddressLength + 2
    /\ t[1] = "0" /\ t[2] = "x"
    /\ \A i \in 3..(AddressLength + 2) : t[i] \in {"0", "a", "A"}

\* _checksum_all_addresses: re.sub replaces the matches, leftmost first and
\* not overlapping, by their checksummed form.
RECURSIVE ChecksumAllAddresses(_)
ChecksumAllAddresses(code) ==
    IF code = <<>> THEN code
    ELSE IF AddressAtHead(code)
    THEN ToChecksumAddress(SubSeq(code, 1, AddressLength + 2))
            \o ChecksumAllAddresses(SubSeq(code, AddressLength + 3, Len(code)))
    ELSE <<code[1]>> \o ChecksumAllAddresses(Tail(code))

\* The function is applied to the string, or to its last result.
ApplyChecksum ==
    /\ Len(sums) < MaxApplications
    /\ sums' = Append(sums, ToChecksumAddress(IF sums = <<>> THEN text ELSE sums[Len(sums)]))
    /\ UNCHANGED <<text, rewrites, notSum>>

ApplyRewrite ==
    /\ Len(rewrites) < MaxApplications
    /\ rewrites' = Append(rewrites,
                          ChecksumAllAddresses(IF rewrites = <<>> THEN text
                                               ELSE rewrites[Len(rewrites)]))
    /\ UNCHANGED <<text, sums, notSum>>

NextSum == ApplyChecksum \/ ApplyRewrite

-----------------------------------------------------------------------------
(***************************************************************************)
(* Candidate code cleaning: _clean_exploit_code                            *)
(*                                                                         *)
(* Candidate code is a sequence of lines; a line is one of a few texts     *)
(* that differ in what the cleaner tests: how the stripped line starts,    *)
(* whether it is exactly "}", what it mentions and its braces.             *)
(***************************************************************************)

MaxLines == 5       \* lines of a candidate

PragmaLine     == "pragma solidity ^0.8.0;"
ContractOpen   == "contract Exploit {"
ContractInLine == "contract Helper {}"
InterfaceOpen  == "interface IToken {"
MemberLine     == "function run() external;"
CloseLine      == "}"
ReceiveLine    == "receive() external payable {}"
FallbackLine   == "fallback() external payable {}"
StatementLine  == "require(ok);"
\* The two comment lines and the empty line the cleaner writes.
CommentLine    == "// Allow contract to receive ETH"
BlankLine      == ""

LineTexts ==
    {PragmaLine, ContractOpen, ContractInLine, InterfaceOpen, MemberLine, CloseLine,
     ReceiveLine, FallbackLine, StatementLine}

\* stripped.startswith("contract ")
StartsContract(l) == l \in {ContractOpen, ContractInLine}

\* line.count("{") - line.count("}")
BraceDelta(l) ==
    CASE l \in {ContractOpen, InterfaceOpen} -> 1
      [] l = CloseLine -> 0 - 1
      [] OTHER -> 0

\* The blocks open after the first n lines, outermost first, as Solidity
\* nests them: the text of the line that opened each.
RECURSIVE OpenBlocks(_, _)
OpenBlocks(ls, n) ==
    IF n = 0 THEN <<>>
    ELSE LET b == OpenBlocks(ls, n - 1)
         IN  IF BraceDelta(ls[n]) = 1 THEN Append(b, ls[n])
             ELSE IF ls[n] = CloseLine /\ b # <<>> THEN SubSeq(b, 1, Len(b) - 1)
             ELSE b

\* Line i lies in the body of a contract.
InContractBody(ls, i) ==
    LET b == OpenBlocks(ls, i - 1) IN b # <<>> /\ b[1] = ContractOpen

\* The line that closes the contract opened at line i.
ContractEnd(ls, i) ==
    CHOOSE j \in i..Len(ls) : OpenBlocks(ls, j) = <<>> /\ \A m \in i..(j - 1) : OpenBlocks(ls, m) # <<>>

\* How often the contract declared at line i declares the entry point l.
Declares(ls, i, l) ==
    IF ls[i] = ContractInLine THEN 0
    ELSE Cardinality({m \in i..ContractEnd(ls, i) :
                         ls[m] = l /\ OpenBlocks(ls, m - 1) = <<ContractOpen>>})

\* A unit the synthesizer may hand over: the braces balance, contracts stand
\* at the top level and declare each entry point at most once, an interface
\* stands at the top level or directly in a contract, members stand in a
\* block, and a statement outside every block is an orphan.
WellFormed(ls) ==
    /\ OpenBlocks(ls, Len(ls)) = <<>>
    /\ \A n \in 1..Len(ls) :
          LET b == OpenBlocks(ls, n - 1)
              l == ls[n]
          IN  /\ l = CloseLine => b # <<>>
              /\ (StartsContract(l) \/ l \in {PragmaLine, StatementLine}) => b = <<>>
              /\ l = InterfaceOpen => b \in {<<>>, <<ContractOpen>>}
              /\ l \in {ReceiveLine, FallbackLine} => b = <<ContractOpen>>
              /\ l = MemberLine => b # <<>>
    /\ \A i \in 1..Len(ls) :
          ls[i] = ContractOpen =>
              Declares(ls, i, ReceiveLine) <= 1 /\ Declares(ls, i, FallbackLine) <= 1

RECURSIVE LinesOf(_)
LinesOf(n) ==
    IF n = 0 THEN {<<>>}
    ELSE LET shorter == LinesOf(n - 1)
         IN  shorter \cup {Append(t, l) : t \in {u \in shorter : Len(u) = n - 1}, l \in LineTexts}

Candidates == {ls \in LinesOf(MaxLines) : WellFormed(ls)}

\* The locals of _clean_exploit_code before the loop.
CleanerStart ==
    [in_contract |-> FALSE, in_interface |-> FALSE, contract_brace_depth |-> 0,
     has_receive_function |-> FALSE, has_fallback_function |-> FALSE,
     cleaned_lines |-> <<>>, interface_lines |-> <<>>]

\* What the end of a contract adds for the entry points it lacks.
MissingEntryPoints(c) ==
    (IF c.has_receive_function THEN <<>> ELSE <<CommentLine, ReceiveLine, BlankLine>>)
    \o (IF c.has_fallback_function THEN <<>> ELSE <<CommentLine, FallbackLine, BlankLine>>)

\* One pass of the loop body over the line l.
CleanLine(c, l) ==
    IF l = PragmaLine THEN c
    ELSE
    LET c1 == IF StartsContract(l)
              THEN [c EXCEPT !.in_contract = TRUE, !.contract_brace_depth = 0,
                             !.has_receive_function = FALSE, !.has_fallback_function = FALSE]
              ELSE c
    IN  IF c1.in_contract /\ l = InterfaceOpen
        THEN [c1 EXCEPT !.in_interface = TRUE, !.interface_lines = Append(@, l)]
        ELSE IF c1.in_interface
        THEN [c1 EXCEPT !.interface_lines = Append(@, l), !.in_interface = (l # CloseLine)]
        ELSE
        LET c2 == IF c1.in_contract
                  THEN [c1 EXCEPT !.has_receive_function = @ \/ l = ReceiveLine,
                                  !.has_fallback_function = @ \/ l = FallbackLine]
                  ELSE c1
            depth == c2.contract_brace_depth + BraceDelta(l)
            at_end == depth = 0 /\ l = CloseLine
            c3 == IF c2.in_contract
                  THEN [c2 EXCEPT
                          !.contract_brace_depth = depth,
                          !.cleaned_lines = IF at_end THEN @ \o MissingEntryPoints(c2) ELSE @,
                          !.has_receive_function = IF at_end THEN FALSE ELSE @,
                          !.has_fallback_function = IF at_end THEN FALSE ELSE @,
                          !.in_contract = ~(depth < 0)]
                  ELSE c2
        IN  IF ~c3.in_contract /\ l = StatementLine
            THEN c3
            ELSE [c3 EXCEPT !.cleaned_lines = Append(@, l)]

RECURSIVE CleanerAfter(_, _)
CleanerAfter(ls, n) == IF n = 0 THEN CleanerStart ELSE CleanLine(CleanerAfter(ls, n - 1), ls[n])

\* _clean_exploit_code: the interfaces it took out, an empty line, the rest.
CleanExploitCode(ls) ==
    LET c == CleanerAfter(ls, Len(ls))
    IN  IF c.interface_lines # <<>>
        THEN c.interface_lines \o <<BlankLine>> \o c.cleaned_lines
        ELSE c.cleaned_lines

NotCleaned == <<"not cleaned">>

\* _create_exploit_test cleans the candidate it is given.
Clean ==
    /\ cleaned = NotCleaned
    /\ cleaned' = CleanExploitCode(candidate)
    /\ UNCHANGED <<candidate, notClean>>

\* The next candidate is handed over.
NextCandidate(ls) ==
    /\ cleaned # NotCleaned
    /\ candidate' = ls
    /\ cleaned' = NotCleaned
    /\ UNCHANGED notClean

NextClean == Clean \/ \E ls \in Candidates : NextCandidate(ls)

-----------------------------------------------------------------------------
(***************************************************************************)
(* Tool-calling generation: ToolCallingLLMClient.generate_with_tools       *)
(***************************************************************************)

\* ToolCallingLLMClient.max_tool_iterations
MaxToolIterations == 3
MaxAsked == 2       \* tool calls one response asks for, at most

NoGeneration == [returned |-> FALSE, tool_calls |-> <<>>, iterations |-> 0]

\* A loop that runs one round more than max_tool_iterations.
OneRoundMore(r) == r <= MaxToolIterations

\* for iteration in range(self.max_tool_iterations)
LoopContinues(r) == r < MaxToolIterations

\* The return value of generate_with_tools.
Generation(all, r) == [returned |-> TRUE, tool_calls |-> all, iterations |-> r + 1]

\* One round up to the execution of its tool calls: the request, the parsed
\* tool calls, and the return when there are none.  A request that fails
\* raises out of the generation.
RequestRound(n, ok) ==
    /\ gpc = "loop"
    /\ requests' = requests + 1
    /\ IF ~ok
       THEN /\ gpc' = "raised"
            /\ UNCHANGED <<asked, gres>>
       ELSE IF n = 0
       THEN /\ gpc' = "returned"
            /\ gres' = Generation(allCalls, round)
            /\ UNCHANGED asked
       ELSE /\ gpc' = "executing"
            /\ asked' = n
            /\ UNCHANGED gres
    /\ UNCHANGED <<round, allCalls, trail, notGen>>

\* ToolCallManager.execute_tool_calls gives back the calls of the round, each
\* in a terminal status; they are appended to all_tool_calls, and the loop
\* breaks when none of them is Completed or when the range is exhausted.
ExecuteRound(sts) ==
    /\ gpc = "executing"
    /\ Len(sts) = asked
    /\ LET executed == [i \in 1..asked |-> [round |-> round, pos |-> i, status |-> sts[i]]]
           all_failed == \A i \in 1..asked : sts[i] # COMPLETED
       IN  /\ allCalls' = allCalls \o executed
           /\ trail' = trail \o executed
           /\ IF all_failed \/ ~LoopContinues(round + 1)
              THEN gpc' = "final" /\ round' = round
              ELSE gpc' = "loop" /\ round' = round + 1
    /\ UNCHANGED <<requests, asked, gres, notGen>>

\* The final request after the loop.
FinalRequest(ok) ==
    /\ gpc = "final"
    /\ requests' = requests + 1
    /\ IF ok
       THEN gpc' = "returned" /\ gres' = Generation(allCalls, round)
       ELSE gpc' = "raised" /\ UNCHANGED gres
    /\ UNCHANGED <<round, asked, allCalls, trail, notGen>>

NextGen ==
    \/ \E n \in 0..MaxAsked, ok \in BOOLEAN : RequestRound(n, ok)
    \/ \E n \in 1..MaxAsked : \E sts \in [1..n -> Terminal] : ExecuteRound(sts)
    \/ \E ok \in BOOLEAN : FinalRequest(ok)

-----------------------------------------------------------------------------
(* Pricing oracle: claims *)

\* C5: a get_token_price call that finds no valid cache entry consults the
\* tiers strictly in the order feed, DEX, price API, static table, skipping
\* none that applies; every tier before the last consulted gave no price; the
\* result is the price of the last one, tagged with that tier (so a price from
\* the feed is returned with source chainlink); None only if none gave a price.
C5_WaterfallOrder ==
    (gp.pc = "done" /\ gp.tok # "UNKNOWN" /\ ~gp.hit) =>
        LET cons == gp.consulted
            n == Len(cons)
            StatedRank(t) == CASE t = "chainlink" -> 1 [] t = "dex" -> 2
                               [] t = "coingecko" -> 3 [] t = "fallback" -> 4
        IN  /\ n >= 1
            /\ \A i, j \in 1..n : i < j => StatedRank(cons[i].tier) < StatedRank(cons[j].tier)
            /\ \A t \in {"chainlink", "dex", "coingecko", "fallback"} :
                  (Applicable(gp.tok, gp.blk, t) /\ StatedRank(t) < StatedRank(cons[n].tier))
                      => \E i \in 1..n : cons[i].tier = t
            /\ \A i \in 1..(n - 1) : ~cons[i].got
            /\ IF cons[n].got
               THEN gp.res # NoResult /\ gp.res.source = cons[n].tier
               ELSE gp.res = NoResult /\ cons[n].tier = "fallback"

\* The feed and the DEX gave nothing and the price API answered.
C5_Witness ==
    /\ gp.pc = "done" /\ ~gp.hit
    /\ Len(gp.consulted) = 3
    /\ gp.res # NoResult /\ gp.res.source = "coingecko"

\* C6: a get_token_price call for the key of an earlier priced call, made
\* while the TTL window of that call's entry is open, returns the same price
\* and source, and consults no tier and sends no request.
C6_SameAnswerWithinTtl ==
    (/\ gp.pc = "done" /\ gp.tok = sym
     /\ first # NoResult /\ gp.blk = first.blk
     /\ now - first.cached_at < MaxAgeTicks)
        => /\ gp.res # NoResult
           /\ gp.res.price = first.price
           /\ gp.res.source = first.source
           /\ gp.consulted = <<>> /\ gp.http = 0

\* C7: while the entry under a key is unexpired, no step replaces it.
C7_EntryWrittenOnce ==
    [][\A k \in BlockKeys : Unexpired(cache[k]) => cache'[k] = cache[k]]_vars

\* C8: a source that keeps failing is asked again at most once: one call
\* sends at most two requests to the price API.
C8_RetriedAtMostOnce == gp.http <= 2

\* C27: a result or a cache entry tagged coingecko holds a price the price
\* API answered with; the API answers within SourcePrices, which the rate
\* of the static table for ETH lies outside, so a coingecko-tagged price equal
\* to that rate was produced by the table, not by the API.
C27_TagIsProducer ==
    /\ \A k \in BlockKeys :
          (cache[k] # NoEntry /\ cache[k].source = "coingecko") => cache[k].price \in SourcePrices
    /\ (gp.pc = "done" /\ gp.res # NoResult /\ gp.res.source = "coingecko")
          => gp.res.price \in SourcePrices

\* C28: get_token_price never raises, whatever the token address, the
\* chain id and the block.
C28_GetPriceNeverRaises == gp.pc # "raised"

-----------------------------------------------------------------------------
(* Harness and reconciliation: claims *)

\* C1: end to end, for the base currency and for the target's token: when a
\* passing run leaves the strategy contract with less of the asset than it
\* held before the exploit, the report that follows holds a violation for
\* that asset.
C1_DecreaseIsRecorded ==
    (rpc = "reported" /\ hx.outcome = "pass") =>
        LET vs == report.invariant_violations \o report.paper_compliance_violations
            Recorded(s) == \E i \in 1..Len(vs) : vs[i].token = s
        IN  /\ hx.ethFinal < hx.ethInitial => Recorded(BaseCurrency)
            /\ hx.tokFinal < hx.tokInitial => Recorded(target)

\* C9: for a token no tier can price, convert_token_to_usd returns 0, the
\* reconciliation completes, and the token's conversion in the report has
\* base value 0 and carries a confidence flag.
C9_UnpricedIsZeroAndFlagged ==
    rpc = "reported" =>
        /\ report.success
        /\ \A i \in 1..Len(usd) : usd[i].token = "UNKNOWN" => usd[i].returned = 0
        /\ \A i \in 1..Len(report.surplus_conversions) :
              LET c == report.surplus_conversions[i] IN
              c.token = "UNKNOWN" =>
                  /\ c.base_value = 0
                  /\ \E f \in DOMAIN c : f \in {"confidence", "low_confidence"}

\* C10: the reported economic performance is the sum of the net changes of
\* the base currency plus the sum of the base values of the surplus
\* conversions; every gain of another token is a surplus conversion, every
\* loss of another token is a deficit resolution, and no deficit enters the sum.
C10_EconomicPerformance ==
    rpc = "reported" =>
        LET chs == report.balance_changes
            base == SelectSeq(chs, LAMBDA ch : ch.token_symbol = BaseCurrency)
            gains == SelectSeq(chs, LAMBDA ch : ch.token_symbol # BaseCurrency /\ ch.net_change > 0)
            losses == SelectSeq(chs, LAMBDA ch : ch.token_symbol # BaseCurrency /\ ch.net_change < 0)
        IN  /\ report.revenue_base_currency
                  = SumNetChange(base) + SumBaseValue(report.surplus_conversions)
            /\ Len(report.surplus_conversions) = Len(gains)
            /\ Len(report.deficit_resolutions) = Len(losses)

\* A report with a direct gain, a priced surplus and a priced deficit.
C10_Witness ==
    /\ rpc = "reported"
    /\ report.direct_base_change > 0
    /\ report.total_surplus_value > 0
    /\ \E i \in 1..Len(report.deficit_resolutions) :
          report.deficit_resolutions[i].acquisition_cost_base > 0
    /\ report.revenue_base_currency = report.direct_base_change + report.total_surplus_value

\* C11: violations never block or alter the profitability computation: every
\* report is a success that carries the economic performance, its USD value
\* and both profitability flags next to the compliance sub-report, and these
\* figures are what the balance changes and the rate give, whether or not
\* the validator reported violations for the same changes.
C11_ViolationsDoNotBlock ==
    rpc = "reported" =>
        LET chs == report.balance_changes
            base == SelectSeq(chs, LAMBDA ch : ch.token_symbol = BaseCurrency)
            pi == SumNetChange(base) + SumBaseValue(report.surplus_conversions)
            rate == report.base_currency_usd_rate
        IN  /\ report.success
            /\ report.revenue_base_currency = pi
            /\ report.revenue_usd = pi * rate
            /\ report.is_profitable = (pi * rate > 1 \/ pi > 0)
            /\ report.profit_threshold_met = (pi * rate > 100)
            /\ report.invariant_violations = ValidateBalanceInvariant(chs)
            /\ report.balance_invariant_enforced = (report.invariant_violations = <<>>)

\* A profitable report that also lists an invariant violation.
C11_Witness ==
    /\ rpc = "reported"
    /\ report.invariant_violations # <<>>
    /\ report.revenue_base_currency > 0
    /\ report.is_profitable

\* C12: the validator returns exactly one depletion violation for each entry
\* with final < initial, in the order of the entries, with violation amount
\* initial - final, and none for an entry with final >= initial; the
\* invariant counts as enforced iff the list of violations is empty (one
\* entry that falls from its initial balance to 0 gives exactly one
\* violation: a depletion of the initial balance).
C12_DepletionPerDecrease ==
    rpc = "reported" =>
        LET chs == report.balance_changes
            dep == SelectSeq(report.invariant_violations, LAMBDA v : v.type = "depletion")
            dec == SelectSeq(chs, LAMBDA ch : ch.final_balance < ch.initial_balance)
        IN  /\ Len(dep) = Len(dec)
            /\ \A i \in 1..Len(dep) :
                  /\ dep[i].token = dec[i].token_symbol
                  /\ dep[i].initial = dec[i].initial_balance
                  /\ dep[i].final = dec[i].final_balance
                  /\ dep[i].violation = dec[i].initial_balance - dec[i].final_balance
            /\ report.balance_invariant_enforced <=> (report.invariant_violations = <<>>)

\* One entry falls from MaxBal to 0; next to it an entry that rose.
C12_Witness ==
    /\ rpc = "reported"
    /\ Len(report.balance_changes) = 2
    /\ report.balance_changes[1].initial_balance = MaxBal
    /\ report.balance_changes[1].final_balance = 0
    /\ report.balance_changes[2].final_balance > report.balance_changes[2].initial_balance
    /\ Len(report.invariant_violations) = 1
    /\ report.invariant_violations[1].type = "depletion"
    /\ report.invariant_violations[1].violation = MaxBal
    /\ ~report.balance_invariant_enforced

\* C13: for every entry with final < 0 the validator adds a negative_balance
\* violation whose amount is |final|, in the order of the entries, and adds it
\* in addition to, never instead of, the depletion violation of the same
\* entry when final < initial: the list holds one violation per decrease plus
\* one per negative final balance.
C13_NegativeInAddition ==
    rpc = "reported" =>
        LET chs == report.balance_changes
            vs == report.invariant_violations
            neg == SelectSeq(vs, LAMBDA v : v.type = "negative_balance")
            below == SelectSeq(chs, LAMBDA ch : ch.final_balance < 0)
            dec == SelectSeq(chs, LAMBDA ch : ch.final_balance < ch.initial_balance)
        IN  /\ Len(neg) = Len(below)
            /\ \A i \in 1..Len(neg) :
                  /\ neg[i].token = below[i].token_symbol
                  /\ neg[i].final = below[i].final_balance
                  /\ neg[i].violation = (IF below[i].final_balance < 0
                                         THEN 0 - below[i].final_balance
                                         ELSE below[i].final_balance)
            /\ Len(vs) = Len(dec) + Len(below)
            /\ \A i \in 1..Len(vs) :
                  (vs[i].type = "negative_balance" /\ vs[i].final < vs[i].initial)
                      => (i > 1 /\ vs[i - 1].type = "depletion"
                                /\ vs[i - 1].token = vs[i].token
                                /\ vs[i - 1].final = vs[i].final)

\* An entry that falls from a positive balance below zero is reported twice,
\* and an entry that rises from one negative balance to another once.
C13_Witness ==
    /\ rpc = "reported"
    /\ Len(report.balance_changes) = 2
    /\ report.balance_changes[1].initial_balance > 0
    /\ report.balance_changes[1].final_balance < 0
    /\ report.balance_changes[2].initial_balance < report.balance_changes[2].final_balance
    /\ report.balance_changes[2].final_balance < 0
    /\ Len(report.invariant_violations) = 3
    /\ report.invariant_violations[1].type = "depletion"
    /\ report.invariant_violations[2].type = "negative_balance"
    /\ report.invariant_violations[2].violation = 0 - report.balance_changes[1].final_balance
    /\ report.invariant_violations[3].type = "negative_balance"

\* C18: the revenue tool runs only for a cycle whose run passed and whose
\* exploit executed (never after a compile failure, a timeout or a revert),
\* and a cycle is classified profitable or not profitable only after the
\* revenue tool has run for it, and as the revenue report says.
C18_ClassifiedAfterReconciled ==
    /\ (rpc = "reported" /\ hx.outcome # "none") =>
          (hx.outcome = "pass" /\ data.exploit_executed_successfully)
    /\ verdict \in {"profitable", "not_profitable"} =>
          /\ rpc = "reported"
          /\ verdict = (IF report.is_profitable THEN "profitable" ELSE "not_profitable")

\* The signals of the run's output: the entry point completed, the storage
\* changed, tokens or value were extracted.
SignalPresent(o) ==
    \/ o.EXPLOIT_EXECUTED_SUCCESSFULLY
    \/ o.STORAGE_CHANGE_DETECTED \/ o.EXPLOIT_CAUSED_STATE_CHANGES
    \/ o.TOKENS_MINTED_DETECTED > 0 \/ o.TOKENS_EXTRACTED > 0
    \/ o.ETH_GAINED > 0 \/ o.ETH_EQUIVALENT > 0

\* C19: the parser reports the exploit as executed exactly when the output
\* of the run holds at least one of the signals.
C19_ExecutedIffSignal ==
    (hx.outcome # "none" /\ rpc # "ran") =>
        (data.exploit_executed_successfully <=> SignalPresent(out))

\* C20: when the output holds both ETH_GAINED and ETH_EQUIVALENT, the ether
\* gained that the parser reports is the value of ETH_EQUIVALENT.
C20_CombinedMarkerPreferred ==
    (hx.outcome # "none" /\ rpc # "ran" /\ out.success
     /\ out.ETH_GAINED # Absent /\ out.ETH_EQUIVALENT # Absent)
        => data.eth_gained = out.ETH_EQUIVALENT

\* C21: the harness prints the marker of each measured quantity (the ether
\* the strategy contract gained, its token balance after the call when the
\* target is a token, the storage-change flag) whatever the outcome of the
\* entry-point call: when exploit() reverted as well as when it completed.
C21_MarkersOnEveryPath ==
    (rpc # "ready" /\ hx.outcome \in {"pass", "revert"}) =>
        /\ {"ETH_GAINED", "EXPLOIT_CAUSED_STATE_CHANGES"} \subseteq out.printed
        /\ hx.erc20 => "FINAL_TOKEN_BALANCE" \in out.printed

\* C29: whatever the harness printed and the parser read from it, a result
\* that says profitable also says the exploit executed successfully, and a
\* run whose exploit() call reverted is not reported as profitable.
C29_ProfitableImpliesExecuted ==
    (hx.outcome # "none" /\ rpc # "ran") =>
        /\ data.profitable => data.exploit_executed_successfully
        /\ hx.outcome = "revert" => ~data.profitable

\* A passing run that gained ether without changing a watched storage slot
\* is reported as profitable and executed.
C29_Witness ==
    /\ hx.outcome = "pass" /\ rpc = "analysed"
    /\ out.ETH_GAINED > 0 /\ ~out.EXPLOIT_CAUSED_STATE_CHANGES
    /\ data.profitable /\ data.exploit_executed_successfully

-----------------------------------------------------------------------------
(* The specifications: each runs one subsystem and leaves the others at rest. *)

\* Every subsystem as its constructor leaves it.
ToolAtRest ==
    /\ batch = <<>>
    /\ mode = "single"
    /\ fresh = FALSE
    /\ tpc = <<>>
    /\ tout = <<>>
    /\ bpc = "idle"
    /\ ret = <<>>
    /\ ops = 0

OracleAtRest ==
    /\ cache = [k \in BlockKeys |-> NoEntry]
    /\ now = 0
    /\ gp = IdleCall
    /\ first = NoResult

ReconAtRest ==
    /\ rpc = "ready"
    /\ hx = NoRun
    /\ out = NoOutput
    /\ data = NoData
    /\ usd = <<>>
    /\ report = NoReport
    /\ verdict = "none"

VerifyAtRest ==
    /\ iteration = 1
    /\ vpc = "idle"
    /\ dirs = [i \in Iterations |-> "none"]
    /\ procs = {}
    /\ spawned = {}
    /\ fate = "none"
    /\ run = NoDict
    /\ started = 0
    /\ vres = NoToolResult

GenAtRest ==
    /\ gpc = "loop"
    /\ round = 0
    /\ requests = 0
    /\ asked = 0
    /\ allCalls = <<>>
    /\ trail = <<>>
    /\ gres = NoGeneration

BatchAtRest ==
    /\ upc = "idle"
    /\ want = [t \in BatchTokens |-> Absent]
    /\ task = [t \in BatchTokens |-> NoTask]
    /\ ures = [t \in BatchTokens |-> Absent]

SumAtRest ==
    /\ sums = <<>>
    /\ rewrites = <<>>

CleanAtRest == cleaned = NotCleaned

\* Three ToolCall objects; the first may name a tool the registry lacks.
InitTool ==
    /\ \E n \in ToolNames :
          calls = [c \in CallIds |-> ToolCall(IF c = 1 THEN n ELSE "tool")]
    /\ sym = "ETH"
    /\ target = "UNKNOWN"
    /\ endpoint = TRUE
    /\ ToolAtRest /\ OracleAtRest /\ ReconAtRest /\ VerifyAtRest /\ GenAtRest /\ BatchAtRest
    /\ text = <<>> /\ SumAtRest
    /\ candidate = <<>> /\ CleanAtRest

\* An oracle with an empty cache, asked about one token of the registry.
InitOracle ==
    /\ sym \in RegistryTokens
    /\ calls = [c \in CallIds |-> ToolCall("tool")]
    /\ target = "UNKNOWN"
    /\ endpoint = TRUE
    /\ ToolAtRest /\ OracleAtRest /\ ReconAtRest /\ VerifyAtRest /\ GenAtRest /\ BatchAtRest
    /\ text = <<>> /\ SumAtRest
    /\ candidate = <<>> /\ CleanAtRest

SpecTool == InitTool /\ [][NextTool]_vars

SpecOracle == InitOracle /\ [][NextOracle]_vars

\* One verification cycle against a target that is or is not a registry token.
InitRecon ==
    /\ target \in TargetSymbols
    /\ calls = [c \in CallIds |-> ToolCall("tool")]
    /\ sym = "ETH"
    /\ endpoint = TRUE
    /\ ToolAtRest /\ OracleAtRest /\ ReconAtRest /\ VerifyAtRest /\ GenAtRest /\ BatchAtRest
    /\ text = <<>> /\ SumAtRest
    /\ candidate = <<>> /\ CleanAtRest

SpecRecon == InitRecon /\ [][NextRecon]_vars


-----------------------------------------------------------------------------
(***************************************************************************)
(* Tool-call executor: properties                                          *)
(***************************************************************************)

\* The text of the error a capability raised, by outcome.
RaisedText(o) ==
    CASE o = "raises"         -> ErrBoom
      [] o = "raises_timeout" -> ErrInner
      [] o = "not_found"      -> ErrNotFound
      [] OTHER                -> None

\* The capability itself raised (as opposed to returning or outliving the budget).
CapabilityRaised(o) == o \in {"raises", "raises_timeout"}

\* C2: a parallel batch over distinct, Pending records returns one record per
\* input position, in input order, and each record's status follows from its
\* own capability alone: returned -> Completed, raised -> Failed, exceeded the
\* timeout -> Timeout (so [returns, raises, hangs] gives Completed, Failed,
\* Timeout), whatever the siblings did.
C2_ParallelBatchIsolated ==
    (bpc = "returned" /\ mode = "parallel" /\ fresh) =>
        /\ Len(ret) = Len(batch)
        /\ \A i \in 1..Len(batch) :
              /\ ret[i] = calls[batch[i]]
              /\ tout[i] = "returns" => ret[i].status = COMPLETED
              /\ CapabilityRaised(tout[i]) => ret[i].status = FAILED
              /\ tout[i] = "hangs" => ret[i].status = TIMEOUT

\* C3: Execute on a Pending record always returns it in a terminal status:
\* Completed iff the capability returned (result stored), Failed iff the
\* capability raised or no capability has that name (error text stored
\* verbatim), Timeout iff the time budget expired.
C3_ExecuteStatusByOutcome ==
    (bpc = "returned" /\ mode = "single" /\ fresh) =>
        LET r == ret[1]
            o == tout[1]
        IN  /\ r.status \in Terminal
            /\ r.status = COMPLETED <=> o = "returns"
            /\ r.status = COMPLETED => r.result = "R"
            /\ r.status = FAILED <=> (CapabilityRaised(o) \/ o = "not_found")
            /\ r.status = FAILED => r.error = RaisedText(o)
            /\ r.status = TIMEOUT <=> o = "hangs"

\* C4: once a ToolCall has reached Completed, Failed or Timeout, no executor
\* step changes its status, result or error.
C4_TerminalIsFinal ==
    [][\A c \in CallIds : calls[c].status \in Terminal => calls'[c] = calls[c]]_vars

\* C24: with parallel=false the calls of a batch start in list order and
\* call i+1 does not start before call i has reached a terminal status, so at
\* most one call of the batch is Running at any time; with parallel=true the
\* calls start in list order too, and the next call can start while earlier
\* ones are still awaiting their tool.
C24_SequentialOneAtATime ==
    (bpc = "running" /\ mode # "single") =>
        /\ \A i, j \in 1..Len(batch) : (i < j /\ tpc[j] # "new") => tpc[i] # "new"
        /\ mode = "sequential" =>
              /\ \A i, j \in 1..Len(batch) :
                    (i < j /\ tpc[j] # "new") =>
                        (tpc[i] = "done" /\ (fresh => calls[batch[i]].status \in Terminal))
              /\ Cardinality({i \in 1..Len(batch) : tpc[i] = "awaiting"}) <= 1
              /\ Cardinality({c \in CallIds : calls[c].status = RUNNING}) <= 1
        /\ mode = "parallel" =>
              \A j \in 1..Len(batch) :
                  (tpc[j] = "new" /\ \A i \in 1..(j - 1) : tpc[i] # "new") => MayStart(j)

\* A sequential batch of three: the first call is over, the second is
\* awaiting its tool, the third has not started.
C24_Witness ==
    /\ bpc = "running" /\ mode = "sequential" /\ fresh
    /\ tpc = <<"done", "awaiting", "new">>
    /\ calls[batch[1]].status \in Terminal
    /\ calls[batch[2]].status = RUNNING
    /\ calls[batch[3]].status = PENDING

\* An analysis request for a chain that may lack an RPC URL.
InitVerify ==
    /\ endpoint \in BOOLEAN
    /\ calls = [c \in CallIds |-> ToolCall("tool")]
    /\ sym = "ETH"
    /\ target = "UNKNOWN"
    /\ ToolAtRest /\ OracleAtRest /\ ReconAtRest /\ VerifyAtRest /\ GenAtRest /\ BatchAtRest
    /\ text = <<>> /\ SumAtRest
    /\ candidate = <<>> /\ CleanAtRest

SpecVerify == InitVerify /\ [][NextVerify]_vars

-----------------------------------------------------------------------------
(* Execution tool: claims *)

\* C14: every temporary project directory created for a verification cycle
\* is deleted by the time execute returns, whatever the exit path: no
\* directory of this or of an earlier iteration exists once the call of this
\* iteration has returned.
C14_TempDirDeletedOnReturn ==
    vpc = "returned" => \A i \in 1..iteration : dirs[i] # "exists"

\* The failure class a result carries in machine-readable form.
ReportedClass(res) ==
    IF res.error_message = ErrTestTimedOut \/ res.revert_reason = ErrTestTimedOut
    THEN "Timeout"
    ELSE IF ~res.compilation_successful THEN "CompileFailure"
    ELSE IF ~res.execution_successful THEN "ProcessError"
    ELSE "none"

\* The class of what happened to the run.
FailureClass(f) ==
    CASE f = "compile" -> "CompileFailure"
      [] f = "timeout" -> "Timeout"
      [] f \in {"revert", "spawn_error"} -> "ProcessError"
      [] OTHER -> "none"

\* C15: the result of a run that failed names the class of the failure,
\* one of CompileFailure, Timeout, ProcessError; a run that hit the timeout
\* is not reported as a compile failure and not without its timeout reason.
C15_FailureClassReported ==
    (vpc = "returned" /\ vres.has_data /\ fate \in {"compile", "revert", "timeout", "spawn_error"})
        => ReportedClass(vres) = FailureClass(fate)

\* C16: when no RPC endpoint is configured for the chain, the cycle ends
\* before any harness run is started, the result names a configuration error
\* rather than the generic project failure, and the agent does not run the
\* cycle again for the request.
C16_MissingEndpointIsFatal ==
    ~endpoint =>
        /\ started = 0
        /\ (vpc = "returned" /\ dirs[iteration] # "none") => vres.error_message # ErrCreateProject
        /\ iteration = 1

\* C17: once the runner has reported the timeout, no process the run started
\* is alive.
C17_TimeoutKillsProcessTree ==
    (fate = "timeout" /\ vpc \in {"ran", "returned"}) => procs \cap spawned = {}

-----------------------------------------------------------------------------
(* Tool-calling generation: specification and claims *)

\* A generation with tools enabled; the rest of the system is idle.
InitGen ==
    /\ calls = [c \in CallIds |-> ToolCall("tool")]
    /\ sym = "ETH"
    /\ target = "UNKNOWN"
    /\ endpoint = TRUE
    /\ ToolAtRest /\ OracleAtRest /\ ReconAtRest /\ VerifyAtRest /\ GenAtRest /\ BatchAtRest
    /\ text = <<>> /\ SumAtRest
    /\ candidate = <<>> /\ CleanAtRest

\* Every request is answered or fails (the HTTP client has a timeout) and
\* every batch of tool calls returns (the executor has one too).
SpecGen == InitGen /\ [][NextGen]_vars /\ WF_vars(NextGen)

\* C30: a generation ends, after at most max_tool_iterations rounds and at
\* most max_tool_iterations + 1 requests; it returns the response of a round
\* that asked for no tool call without a further request; after a round in
\* which no tool call completed no further round is run; and the returned
\* tool_calls are the executed calls of every round, each once, in the order
\* of execution.
C30_GenerationBounded ==
    /\ [](/\ requests <= MaxToolIterations + 1
          /\ round < MaxToolIterations
          /\ Len(trail) > 0 =>
                LET last == trail[Len(trail)]
                IN  /\ last.round <= round
                    /\ ((\A i \in 1..Len(trail) :
                            trail[i].round = last.round => trail[i].status # COMPLETED)
                        /\ gpc # "executing") => (round = last.round /\ gpc # "loop")
          /\ gres.returned =>
                /\ gres.tool_calls = trail
                /\ \A i, j \in 1..Len(trail) :
                      i # j => <<trail[i].round, trail[i].pos>> # <<trail[j].round, trail[j].pos>>
                /\ gres.iterations = round + 1
                /\ requests <= round + 2)
    /\ <>(gpc \in {"returned", "raised"})

\* Every round asked for tool calls and one of them completed each time:
\* three rounds and the final request.
C30_Witness ==
    /\ gres.returned
    /\ requests = MaxToolIterations + 1
    /\ gres.iterations = MaxToolIterations
    /\ Len(gres.tool_calls) >= MaxToolIterations

-----------------------------------------------------------------------------
(* Batch USD conversion: specification and claims *)

InitBatch ==
    /\ calls = [c \in CallIds |-> ToolCall("tool")]
    /\ sym = "ETH"
    /\ target = "UNKNOWN"
    /\ endpoint = TRUE
    /\ ToolAtRest /\ OracleAtRest /\ ReconAtRest /\ VerifyAtRest /\ GenAtRest /\ BatchAtRest
    /\ text = <<>> /\ SumAtRest
    /\ candidate = <<>> /\ CleanAtRest

SpecBatch == InitBatch /\ [][NextBatch]_vars

\* C25: a batch conversion returns, as soon as every task has ended and
\* whatever the order they ended in, one entry per requested token and none
\* for another; the entry is 0 for a token whose conversion raised or was
\* Unavailable, and otherwise the value its single conversion returned.
C25_BatchPerToken ==
    /\ (upc = "gathering" /\ \A t \in BatchTokens : task[t].state # "pending")
          => ENABLED GatherReturns
    /\ upc = "returned" =>
          \A t \in BatchTokens :
             /\ Requested(t) <=> ures[t] # Absent
             /\ Requested(t) =>
                   ures[t] = IF task[t].state = "raised" \/ task[t].value = Unavailable
                             THEN 0 ELSE task[t].value

\* Three tokens: one conversion raised, one was Unavailable, one gave a value.
C25_Witness ==
    /\ upc = "returned"
    /\ \E a, b, c \in BatchTokens :
          /\ task[a].state = "raised" /\ ures[a] = 0
          /\ task[b].state = "returned" /\ task[b].value = Unavailable /\ ures[b] = 0
          /\ task[c].state = "returned" /\ task[c].value > 0 /\ ures[c] = task[c].value

-----------------------------------------------------------------------------
(* Address checksumming: specification and claims *)

\* Any string, as an address argument or as candidate code.
InitSum ==
    /\ calls = [c \in CallIds |-> ToolCall("tool")]
    /\ sym = "ETH"
    /\ target = "UNKNOWN"
    /\ endpoint = TRUE
    /\ ToolAtRest /\ OracleAtRest /\ ReconAtRest /\ VerifyAtRest /\ GenAtRest /\ BatchAtRest
    /\ text \in Texts /\ SumAtRest
    /\ candidate = <<>> /\ CleanAtRest

SpecSum == InitSum /\ [][NextSum]_vars

\* C22: checksumming the checksummed form of any string, a valid address or
\* not, gives that form again; and so does rewriting rewritten code.
C22_ChecksumIdempotent ==
    /\ Len(sums) = 2 => sums[2] = sums[1]
    /\ Len(rewrites) = 2 => rewrites[2] = rewrites[1]

-----------------------------------------------------------------------------
(* Candidate code cleaning: specification and claims *)

InitClean ==
    /\ calls = [c \in CallIds |-> ToolCall("tool")]
    /\ sym = "ETH"
    /\ target = "UNKNOWN"
    /\ endpoint = TRUE
    /\ ToolAtRest /\ OracleAtRest /\ ReconAtRest /\ VerifyAtRest /\ GenAtRest /\ BatchAtRest
    /\ text = <<>> /\ SumAtRest
    /\ candidate \in Candidates /\ CleanAtRest

SpecClean == InitClean /\ [][NextClean]_vars

\* C23: in the cleaned code every contract of the candidate, whether it is
\* the only one or one of several, declares receive exactly once and fallback
\* exactly once.
C23_EntryPointsOnce ==
    cleaned # NotCleaned =>
        \A i \in 1..Len(cleaned) :
            StartsContract(cleaned[i]) =>
                /\ Declares(cleaned, i, ReceiveLine) = 1
                /\ Declares(cleaned, i, FallbackLine) = 1

\* C26: in the cleaned code no interface is declared in the body of a
\* contract, and no statement line stands outside every contract body, be it
\* before the first contract, between two or after the last.
C26_NoNestedNoOrphan ==
    cleaned # NotCleaned =>
        \A i \in 1..Len(cleaned) :
            /\ cleaned[i] = InterfaceOpen => ~InContractBody(cleaned, i)
            /\ cleaned[i] = StatementLine => InContractBody(cleaned, i)

====
